---- MODULE Spec2Model ----
(***************************************************************************)
(* Scheduling core of the test runner: the dependency-phase builder        *)
(* (buildPhases), the task pipeline built by createTaskRunner, the         *)
(* phase loop of createRunTestsTask and the reporter Multiplexer.          *)
(***************************************************************************)
EXTENDS Integers, Sequences, FiniteSets, TLC

\* ------------------------------------------------------------------ bounds
NumProjects == 4
NumChainProjects == 6
MaxEdges == 3
MaxTests == 1
NumReporters == 2
MaxEvents == 2
NumFiles == 3
MaxFileList == 3
MaxPlugins == 2
NumWorkers == 2
NumDTests == 2
MaxRetries == 2
MaxExisting == 3
NumCalls == 3
MaxLoads == 4

Projects == 1..NumProjects
Reporters == 1..NumReporters

VARIABLES
  deps,               \* FullProjectInternal._deps : project -> set of projects
  bp,                 \* one call of buildPhases on its own: [pc, in, out]
  ld,                 \* one call of loadTestFilesInProcess on its own
  dp,                 \* one Dispatcher with its workers on its own
  js,                 \* one call of js2ts on its own: [pc, resolved, fs, out]
  hk,                 \* one notification of the Multiplexer on its own
  rq,                 \* calls of requireOrImport on their own
  runner,             \* TaskRunner.run: [tasks, pc, cur, inTask, status, teardowns, td,
                      \* rolled, threw (history: the steps rolled back, in order,
                      \* and those whose rollback threw)]
  rootSuite,          \* context.rootSuite.suites: the project suites, in order
  ntests,             \* projectSuite.allTests().length per project
  options,            \* options.passWithNoTests and config.shard as createLoadTask
                      \* read them (it reads them for an empty suite only)
  testGroups,         \* ProjectWithTestGroups.testGroups: group sizes per project
  phases,             \* context.phases: sequence of [id, projects]
  outputDirs,         \* options.projectFilter [filtered, names], project.outputDir
                      \* [dirOf] and the directories removed so far [removed]
  dispatchers,        \* phase id -> [queue, stopped, workerErrors, runCalls]
  results,            \* test.results: project -> test index -> statuses
  rt,                 \* the 'test suite' step: [pc, i, cur]
  successfulProjects, \* createRunTestsTask's successfulProjects
  deferredErrors,     \* Multiplexer._deferredErrors: [isNull, items]
  deferredStdIO,      \* Multiplexer._deferredStdIO: [isNull, items]
  sent,               \* history: the errors and chunks passed to the Multiplexer
  log,                \* what each underlying reporter has received, in order
  dispatched,         \* history: projects whose groups were handed to run()
  visited             \* history: projects whose turn of the phase loop has begun

ctxVars == <<rootSuite, ntests, options, testGroups, phases, outputDirs>>
runVars == <<dispatchers, results, rt, successfulProjects, dispatched, visited>>
muxVars == <<deferredErrors, deferredStdIO, log, sent>>
vars == <<deps, bp, ld, dp, js, hk, rq, runner, ctxVars, runVars, muxVars>>

\* ------------------------------------------------------------- helpers
Range(s) == {s[i] : i \in 1..Len(s)}

RECURSIVE EdgeSets(_)
EdgeSets(k) ==
  IF k = 0 THEN {{}}
  ELSE LET S == EdgeSets(k - 1)
       IN S \cup {s \cup {e} : s \in S, e \in {x \in Projects \X Projects : x[1] # x[2]}}

\* Every dependency relation between distinct projects with at most MaxEdges
\* edges (cycles included: nothing in the configuration type forbids them).
DepConfigs ==
  {[p \in Projects |-> {q \in Projects : <<p, q>> \in E}] : E \in EdgeSets(MaxEdges)}

\* The sub-sequence of 1..NumProjects (discovery order) holding the set S.
RECURSIVE OrderedSeq(_, _)
OrderedSeq(S, n) ==
  IF n = 0 THEN <<>>
  ELSE IF n \in S THEN Append(OrderedSeq(S, n - 1), n) ELSE OrderedSeq(S, n - 1)

SuiteLists == {OrderedSeq(S, NumProjects) : S \in SUBSET Projects}

\* The projects of the configuration in use (config.projects).
Configured == DOMAIN deps

\* The projects reachable from p along _deps, in one step or more.
RECURSIVE DepsClosure(_, _)
DepsClosure(S, n) ==
  IF n = 0 THEN S ELSE DepsClosure(S \cup UNION {deps[q] : q \in S}, n - 1)

TransDeps(p) == DepsClosure(deps[p], Cardinality(Configured))

Acyclic == \A p \in Configured : p \notin TransDeps(p)

\* --------------------------------------------------------- buildPhases
\* for (const projectSuite of projectSuites) { if processed.has -> continue;
\*   if _deps.find(p => !processed.has(p)) -> continue; phase.push }
EligibleIgnoringDeps(p, processed) == p \notin processed

Eligible(p, processed) ==
  /\ p \notin processed
  /\ \A d \in deps[p] : d \in processed

\* The inner scan `for (const projectSuite of projectSuites)` of one pass.
PhaseOfFirstOnly(projectSuites, processed) ==
  LET e == SelectSeq(projectSuites, LAMBDA p : Eligible(p, processed))
  IN IF Len(e) = 0 THEN <<>> ELSE <<e[1]>>

PhaseOfLastFirst(projectSuites, processed) ==
  LET e == SelectSeq(projectSuites, LAMBDA p : Eligible(p, processed))
  IN [i \in 1..Len(e) |-> e[Len(e) + 1 - i]]

RECURSIVE PhaseOfGreedy(_, _)
PhaseOfGreedy(projectSuites, processed) ==
  IF Len(projectSuites) = 0 THEN <<>>
  ELSE IF Eligible(projectSuites[1], processed)
       THEN <<projectSuites[1]>> \o
            PhaseOfGreedy(Tail(projectSuites), processed \cup {projectSuites[1]})
       ELSE PhaseOfGreedy(Tail(projectSuites), processed)

PhaseOf(projectSuites, processed) ==
  SelectSeq(projectSuites, LAMBDA p : Eligible(p, processed))

\* One iteration of the outer loop `for (let i = 0; i < projectSuites.length; i++)`.
RECURSIVE BuildPasses(_, _, _, _)
BuildPasses(projectSuites, i, processed, acc) ==
  IF i >= Len(projectSuites) THEN acc
  ELSE LET phase == PhaseOf(projectSuites, processed)
       IN BuildPasses(projectSuites, i + 1, processed \cup Range(phase),
                      IF Len(phase) > 0 THEN Append(acc, phase) ELSE acc)

buildPhases(projectSuites) == BuildPasses(projectSuites, 0, {}, <<>>)

\* ----------------------------------------------------------- test model
\* A test's reported statuses; Test.ok(): the last attempt that is not a
\* skip passed, or there is none.
NonSkipped(rs) == SelectSeq(rs, LAMBDA s : s # "skipped")

TestOk(rs) ==
  LET ns == NonSkipped(rs) IN Len(ns) = 0 \/ ns[Len(ns)] = "passed"

TestsOf(p) == 1..ntests[p]

\* projectSuite.allTests().some(test => !test.ok())
HasNotOkTest(p, res) == \E t \in TestsOf(p) : ~TestOk(res[p][t])

\* All ways createTestGroups may cut n tests into consecutive non-empty groups.
RECURSIVE Compositions(_)
Compositions(n) ==
  IF n = 0 THEN {<<>>}
  ELSE UNION {{<<k>> \o c : c \in Compositions(n - k)} : k \in 1..n}

RECURSIVE SumSeq(_)
SumSeq(s) == IF Len(s) = 0 THEN 0 ELSE s[1] + SumSeq(Tail(s))

\* The tests of a project in group order, as <<project, test index>>.
TestSeqOf(p) == [t \in 1..ntests[p] |-> <<p, t>>]

RECURSIVE ConcatTestsLastFirst(_)
ConcatTestsLastFirst(projs) ==
  IF Len(projs) = 0 THEN <<>>
  ELSE ConcatTestsLastFirst(Tail(projs)) \o TestSeqOf(projs[1])

RECURSIVE ConcatTests(_)
ConcatTests(projs) ==
  IF Len(projs) = 0 THEN <<>> ELSE TestSeqOf(projs[1]) \o ConcatTests(Tail(projs))

RECURSIVE CountGroups(_)
CountGroups(projs) ==
  IF Len(projs) = 0 THEN 0 ELSE Len(testGroups[projs[1]]) + CountGroups(Tail(projs))

Reverse(s) == [i \in 1..Len(s) |-> s[Len(s) + 1 - i]]

\* ----------------------------------------------------------- Multiplexer
\* for (const reporter of this._reporters) wrap(() => reporter.hook?.(...))
Deliver(lg, what) == [r \in Reporters |-> Append(lg[r], what)]

RECURSIVE DeliverAll(_, _)
DeliverAll(lg, items) ==
  IF Len(items) = 0 THEN lg ELSE DeliverAll(Deliver(lg, items[1]), Tail(items))

MuxOnErrorUnbuffered(de, lg, error) == [de |-> de, lg |-> Deliver(lg, error)]

\* Multiplexer.onError: buffered while _deferredErrors is not null.
MuxOnError(de, lg, error) ==
  IF ~de.isNull
  THEN [de |-> [de EXCEPT !.items = Append(@, error)], lg |-> lg]
  ELSE [de |-> de, lg |-> Deliver(lg, error)]

\* Multiplexer.onBegin: reporter.onBegin is called outside wrap(). thrower = 0:
\* no reporter throws; otherwise reporter `thrower` throws out of onBegin, the
\* reporters after it are not called and _deferredErrors is left as it was.
MuxOnBegin(de, ds, lg, thrower) ==
  IF thrower # 0
  THEN [de |-> de, ds |-> ds, threw |-> TRUE,
        lg |-> [r \in Reporters |-> IF r <= thrower THEN Append(lg[r], <<"onBegin">>) ELSE lg[r]]]
  ELSE [de |-> [isNull |-> TRUE, items |-> <<>>],
        ds |-> [isNull |-> TRUE, items |-> <<>>],
        threw |-> FALSE,
        lg |-> DeliverAll(DeliverAll(Deliver(lg, <<"onBegin">>), de.items), ds.items)]

\* Multiplexer.onStdOut / onStdErr: buffered while _deferredStdIO is not null.
MuxOnStdIO(ds, lg, chunk) ==
  IF ~ds.isNull
  THEN [ds |-> [ds EXCEPT !.items = Append(@, chunk)], lg |-> lg]
  ELSE [ds |-> ds, lg |-> Deliver(lg, chunk)]

\* Multiplexer.onExit: onBegin if it was never reported, then onEnd and onExit
\* of every reporter (each behind its own catch).
MuxOnExit(de, ds, lg, thrower) ==
  LET b == IF ~de.isNull THEN MuxOnBegin(de, ds, lg, thrower)
           ELSE [de |-> de, ds |-> ds, threw |-> FALSE, lg |-> lg]
  IN IF b.threw THEN b
     ELSE [b EXCEPT !.lg = Deliver(Deliver(b.lg, <<"onEnd">>), <<"onExit">>)]

\* ------------------------------------------------------------ TaskRunner
\* createTaskRunner: the steps, in registration order, for a configuration
\* with nPlugins plugin registrations and with or without global hooks.
CreateTaskRunnerSetupLate(nPlugins, globalHooks) ==
  (IF globalHooks THEN <<"global setup">> ELSE <<>>)
  \o <<"load tests", "shard tests">>
  \o [i \in 1..nPlugins |-> "plugin setup"]
  \o <<"prepare to run", "plugin begin", "report begin", "test suite">>

CreateTaskRunner(nPlugins, globalHooks) ==
  [i \in 1..nPlugins |-> "plugin setup"]
  \o (IF globalHooks THEN <<"global setup">> ELSE <<>>)
  \o <<"load tests", "shard tests", "prepare to run", "plugin begin",
       "report begin", "test suite">>

Tasks == runner.tasks

CurTask == IF runner.cur <= Len(Tasks) THEN Tasks[runner.cur] ELSE "none"

\* Steps that suspend (await) before they complete.
AsyncTasks == {"plugin setup", "global setup", "load tests", "prepare to run",
               "plugin begin", "test suite"}

\* Steps whose function returns a rollback.
NoRollbackButShardTests == {"shard tests"}

WithTeardown == {"plugin setup", "global setup", "shard tests", "report begin"}

NoDispatcher == [queue |-> <<>>, stopped |-> FALSE, workerErrors |-> FALSE, runCalls |-> 0]

\* A dispatcher that has not been created: its tests, its worker processes
\* (at most NumWorkers alive at a time; a replaced worker is a new process).
DTests == 1..NumDTests

MaxProcs == NumDTests * (MaxRetries + 1) + NumWorkers

Procs == 1..MaxProcs

NoWorker ==
  [st |-> "none", group |-> <<>>, cur |-> 0, discard |-> FALSE, groups |-> 0, tmo |-> <<>>]

DispatcherIdle ==
  [pc |-> "idle", retries |-> 0, queue |-> <<>>,
   workers |-> [w \in Procs |-> NoWorker],
   results |-> [t \in DTests |-> <<>>],
   started |-> {}, crashed |-> {}, crashAt |-> [t \in DTests |-> 0],
   workerErrors |-> FALSE, cancelled |-> FALSE,
   fatal |-> 0, reported |-> <<>>, outcome |-> "none"]

\* loadTestFilesInProcess is not being called.
LoaderIdle ==
  [pc |-> "idle", testFiles |-> <<>>, pos |-> 0, cache |-> {}, loadErrors |-> <<>>,
   suites |-> <<>>, failed |-> <<>>, nextId |-> 1, calls |-> <<>>]

\* A TaskRunner with its steps registered, before run().
RunnerInit(tasks) ==
  [tasks |-> tasks, pc |-> "tasks", cur |-> 1, inTask |-> FALSE, status |-> "passed",
   teardowns |-> <<>>, td |-> 0, rolled |-> <<>>, threw |-> {},
   plugins |-> <<>>, hooks |-> <<>>, vite |-> FALSE, stoppableServer |-> FALSE]

\* The run context, the dispatchers' bookkeeping and the Multiplexer at start.
ContextInit ==
  /\ rootSuite = <<>>
  /\ ntests = [p \in Configured |-> 0]
  /\ options = [read |-> FALSE, passWithNoTests |-> FALSE, shard |-> FALSE]
  /\ testGroups = [p \in Configured |-> <<>>]
  /\ phases = <<>>
  /\ dispatchers = [k \in Configured |-> NoDispatcher]
  /\ results = [p \in Configured |-> [t \in 1..MaxTests |-> <<>>]]
  /\ rt = [pc |-> "idle", i |-> 0, cur |-> 0]
  /\ successfulProjects = {}
  /\ deferredErrors = [isNull |-> FALSE, items |-> <<>>]
  /\ deferredStdIO = [isNull |-> FALSE, items |-> <<>>]
  /\ sent = <<>>
  /\ log = [r \in Reporters |-> <<>>]
  /\ dispatched = {}
  /\ visited = {}

\* options.projectFilter is undefined; every project has an outputDir of its own.
NoProjectFilter ==
  [filtered |-> FALSE, names |-> {}, dirOf |-> [p \in Configured |-> p], removed |-> {}]

\* js2ts is not being called.
Js2tsIdle ==
  [pc |-> "idle", resolved |-> <<>>, fs |-> {}, out |-> [defined |-> FALSE, path |-> <<>>]]

\* No notification is being passed to a Multiplexer on its own.
HookIdle == [pc |-> "idle", hook |-> "none", begun |-> FALSE, throwers |-> {},
             received |-> {}, propagated |-> FALSE]

\* requireOrImport is not being called: Module._resolveFilename is the
\* original function (0) and no transform hook is installed.
RequireIdle ==
  [resolveFilename |-> 0, hooks |-> {}, pc |-> [c \in 1..NumCalls |-> "idle"],
   original |-> [c \in 1..NumCalls |-> 0]]

PipelineInit ==
  /\ runner = RunnerInit(CreateTaskRunner(0, FALSE))
  /\ ContextInit
  /\ outputDirs = NoProjectFilter
  /\ js = Js2tsIdle
  /\ hk = HookIdle
  /\ rq = RequireIdle

Init ==
  /\ deps \in DepConfigs
  /\ bp = [pc |-> "unused", in |-> <<>>, out |-> <<>>]
  /\ ld = LoaderIdle
  /\ dp = DispatcherIdle
  /\ PipelineInit

\* The step completed: its rollback, if it returns one, goes on the stack.
Completed(r, task) ==
  [r EXCEPT !.inTask = FALSE,
            !.cur = @ + 1,
            !.teardowns = IF task \in WithTeardown THEN <<r.cur>> \o @ ELSE @,
            !.pc = IF r.cur = Len(Tasks) THEN "teardown" ELSE "tasks"]

\* The step threw: execution halts and the rollbacks run.
Failed(r) == [r EXCEPT !.inTask = FALSE, !.status = "failed", !.pc = "teardown"]

\* The plugin registration that the 'plugin setup' step at position i is for.
PluginAt(i) == Cardinality({j \in 1..i : Tasks[j] = "plugin setup"})

\* A call of a plugin hook.
Hook(r, kind, plugin) == [r EXCEPT !.hooks = Append(@, <<kind, plugin>>)]

\* createPluginSetupTask up to its await: plugins.push(plugin); plugin.setup(...)
SetupCalled(r) ==
  [Hook(r, "setup", PluginAt(r.cur)) EXCEPT !.plugins = Append(@, PluginAt(r.cur))]

\* 'plugin begin': for (const plugin of plugins) await plugin.begin?.(rootSuite),
\* from the plugin at position `from` up to the one at position `to`.
RECURSIVE Begun(_, _, _)
Begun(r, from, to) ==
  IF from > to \/ from > Len(r.plugins) THEN r
  ELSE Begun(Hook(r, "begin", r.plugins[from]), from + 1, to)

\* The first registered plugin is the one of createPlugin when r.vite: its
\* begin assigns the module variable stoppableServer once the preview server
\* runs, which is the case when the begin hooks of the first `done` plugins
\* have returned.
BeginReturned(r, done) ==
  [r EXCEPT !.stoppableServer = @ \/ (r.vite /\ done >= 1 /\ Len(r.plugins) >= 1)]

\* A step starts and suspends at its first await.
BeginTask ==
  /\ runner.pc = "tasks" /\ ~runner.inTask
  /\ CurTask \in AsyncTasks \ {"test suite"}
  /\ runner' = [(IF CurTask = "plugin setup" THEN SetupCalled(runner)
                 ELSE IF CurTask = "plugin begin" THEN Begun(runner, 1, 1)
                 ELSE runner) EXCEPT !.inTask = TRUE]
  /\ UNCHANGED <<deps, js, hk, rq, bp, ld, dp, ctxVars, runVars, muxVars>>

\* createRemoveOutputDirsTask: the output directories of the projects that
\* pass the project filter (of all projects when there is no filter).
RemovedDirs ==
  {outputDirs.dirOf[p] :
     p \in {q \in Configured : ~outputDirs.filtered \/ q \in outputDirs.names}}

\* 'plugin setup', 'global setup', 'prepare to run', 'plugin begin'.
SimpleTaskDone ==
  /\ runner.pc = "tasks" /\ runner.inTask
  /\ CurTask \in {"plugin setup", "global setup", "prepare to run", "plugin begin"}
  /\ runner' = Completed(IF CurTask = "plugin setup"
                         THEN Hook(runner, "setup done", PluginAt(runner.cur))
                         ELSE IF CurTask = "plugin begin"
                         THEN BeginReturned(Begun(runner, 2, Len(runner.plugins)),
                                            Len(runner.plugins))
                         ELSE runner, CurTask)
  /\ outputDirs' = IF CurTask = "prepare to run"
                   THEN [outputDirs EXCEPT !.removed = @ \cup RemovedDirs]
                   ELSE outputDirs
  /\ UNCHANGED <<deps, js, hk, rq, bp, ld, dp, rootSuite, ntests, options, testGroups, phases,
                 runVars, muxVars>>

\* A step other than the test run throws; the error goes to reporter.onError.
TaskThrows ==
  /\ runner.pc = "tasks" /\ runner.inTask
  /\ CurTask \in AsyncTasks \ {"test suite"}
  /\ LET m == MuxOnError(deferredErrors, log, <<"onError", CurTask>>)
     IN deferredErrors' = m.de /\ log' = m.lg
  /\ sent' = Append(sent, <<"onError", CurTask>>)
  /\ IF CurTask = "plugin begin"
     THEN \E k \in 1..Len(runner.plugins) :
            runner' = Failed(BeginReturned(Begun(runner, 2, k), k - 1))
     ELSE runner' = Failed(runner)
  /\ UNCHANGED <<deps, js, hk, rq, bp, ld, dp, ctxVars, runVars, deferredStdIO>>

\* The global timeout elapses while the current step is suspended: the step
\* is abandoned and the rollbacks run.
GlobalTimeout ==
  /\ runner.pc = "tasks" /\ runner.inTask
  /\ \E k \in 1..(IF CurTask = "plugin begin" /\ Len(runner.plugins) > 0
                  THEN Len(runner.plugins) ELSE 1) :
       runner' = [(IF CurTask = "plugin begin"
                   THEN BeginReturned(Begun(runner, 2, k), k - 1) ELSE runner)
                  EXCEPT !.inTask = FALSE, !.status = "timedout", !.pc = "teardown"]
  /\ UNCHANGED <<deps, js, hk, rq, bp, ld, dp, ctxVars, runVars, muxVars>>

\* if (!context.rootSuite.allTests().length && !context.options.passWithNoTests
\*     && !config.shard) throw new Error(`No tests found`)
NoTestsNeverFound(n, passWithNoTests, shard) == FALSE

NoTestsFound(n, passWithNoTests, shard) ==
  (\A p \in Configured : n[p] = 0) /\ ~passWithNoTests /\ ~shard

\* loadAllTests under a project filter: the suites of the projects named by
\* the filter and of the projects they depend on; without a filter, of all.
Selected ==
  IF ~outputDirs.filtered THEN Configured
  ELSE outputDirs.names \cup UNION {TransDeps(p) : p \in outputDirs.names}

\* createLoadTask: loadAllTests returns the root suite; then the check for an
\* empty suite.
LoadTestsDone ==
  /\ runner.pc = "tasks" /\ runner.inTask /\ CurTask = "load tests"
  /\ \E n \in [Configured -> 0..MaxTests], passWithNoTests \in BOOLEAN, shard \in BOOLEAN :
       /\ \A p \in Configured \ Selected : n[p] = 0
       /\ rootSuite' = OrderedSeq(Selected, Cardinality(Configured))
       /\ ntests' = n
       /\ options' = IF \A p \in Configured : n[p] = 0
                     THEN [read |-> TRUE, passWithNoTests |-> passWithNoTests, shard |-> shard]
                     ELSE options
       /\ IF NoTestsFound(n, passWithNoTests, shard)
          THEN /\ runner' = Failed(runner)
               /\ LET m == MuxOnError(deferredErrors, log, <<"onError", CurTask>>)
                  IN deferredErrors' = m.de /\ log' = m.lg
               /\ sent' = Append(sent, <<"onError", CurTask>>)
               /\ UNCHANGED deferredStdIO
          ELSE /\ runner' = Completed(runner, CurTask)
               /\ UNCHANGED muxVars
  /\ UNCHANGED <<deps, js, hk, rq, bp, ld, dp, testGroups, phases, outputDirs, runVars>>

\* createTestGroupsTask: one entry of context.phases, with a new Dispatcher,
\* per phase of buildPhases(rootSuite.suites).
ShardTests ==
  /\ runner.pc = "tasks" /\ ~runner.inTask /\ CurTask = "shard tests"
  /\ LET ph == buildPhases(rootSuite)
     IN phases' = [k \in 1..Len(ph) |-> [id |-> k, projects |-> ph[k]]]
  /\ \E g \in [Configured -> UNION {Compositions(n) : n \in 0..MaxTests}] :
       /\ \A p \in Configured : SumSeq(g[p]) = ntests[p]
       /\ testGroups' = g
  /\ runner' = Completed(runner, CurTask)
  /\ UNCHANGED <<deps, js, hk, rq, bp, ld, dp, rootSuite, ntests, options, outputDirs, runVars, muxVars>>

\* 'report begin': reporter.onBegin(config, rootSuite); returns () => reporter.onEnd().
ReportBegin ==
  /\ runner.pc = "tasks" /\ ~runner.inTask /\ CurTask = "report begin"
  /\ \E thrower \in 0..NumReporters :
       LET m == MuxOnBegin(deferredErrors, deferredStdIO, log, thrower)
       IN /\ deferredStdIO' = m.ds
          /\ IF m.threw
             THEN LET e == MuxOnError(m.de, m.lg, <<"onError", CurTask>>)
                  IN /\ deferredErrors' = e.de /\ log' = e.lg
                     /\ sent' = Append(sent, <<"onError", CurTask>>)
                     /\ runner' = Failed(runner)
             ELSE /\ deferredErrors' = m.de /\ log' = m.lg
                  /\ UNCHANGED sent
                  /\ runner' = Completed(runner, CurTask)
  /\ UNCHANGED <<deps, js, hk, rq, bp, ld, dp, ctxVars, runVars>>

\* ------------------------------------------------------------ Dispatcher
\* run() resolves when every test handed over is terminal or the dispatcher
\* was stopped.
RunResolved(k) == Len(dispatchers[k].queue) = 0 \/ dispatchers[k].stopped

\* run(testGroups): a stopped dispatcher schedules nothing.
RunCalled(d, tests) ==
  [d EXCEPT !.runCalls = @ + 1, !.queue = IF d.stopped THEN <<>> ELSE tests]

\* stop(): the workers are stopped; what was queued is not run any more.
StopCalled(d) == [d EXCEPT !.stopped = TRUE, !.queue = <<>>]

\* The worker ends the test at the head of the queue.
DispatcherTestEnd(k) ==
  /\ runner.pc # "exited"
  /\ ~dispatchers[k].stopped /\ Len(dispatchers[k].queue) > 0
  /\ \E status \in {"passed", "failed", "timedOut"} :
       LET test == Head(dispatchers[k].queue)
       IN results' = [results EXCEPT ![test[1]][test[2]] = Append(@, status)]
  /\ dispatchers' = [dispatchers EXCEPT ![k].queue = Tail(@)]
  /\ UNCHANGED <<deps, js, hk, rq, bp, ld, dp, runner, ctxVars, rt, successfulProjects, dispatched, visited, muxVars>>

\* The worker exits unexpectedly while running the test at the head of the queue.
WorkerCrash(k) ==
  /\ runner.pc # "exited"
  /\ ~dispatchers[k].stopped /\ Len(dispatchers[k].queue) > 0
  /\ LET test == Head(dispatchers[k].queue)
     IN results' = [results EXCEPT ![test[1]][test[2]] = Append(@, "failed")]
  /\ dispatchers' = [dispatchers EXCEPT ![k].queue = Tail(@), ![k].workerErrors = TRUE]
  /\ UNCHANGED <<deps, js, hk, rq, bp, ld, dp, runner, ctxVars, rt, successfulProjects, dispatched, visited, muxVars>>

\* ---------------------------------------------------- createRunTestsTask
\* project._deps.some(p => !successfulProjects.has(p))
NeverHasFailedDeps(p, successful) == FALSE

HasFailedDeps(p, successful) == \E d \in deps[p] : d \notin successful

\* if (!hasFailedDeps && !projectSuite.allTests().some(test => !test.ok()))
JoinsSuccessfulIgnoringDeps(p, successful, res) == ~HasNotOkTest(p, res)

JoinsSuccessful(p, successful, res) ==
  ~HasFailedDeps(p, successful) /\ ~HasNotOkTest(p, res)

\* for (const { project, projectSuite } of projects) ... successfulProjects.add(project)
RECURSIVE AddSuccessful(_, _, _)
AddSuccessful(projs, successful, res) ==
  IF Len(projs) = 0 THEN successful
  ELSE AddSuccessful(Tail(projs),
                     IF JoinsSuccessful(projs[1], successful, res)
                     THEN successful \cup {projs[1]} ELSE successful,
                     res)

\* if (!dispatcher.hasWorkerErrors()) { ... }
BookkeepingDespiteWorkerErrors(k, projs, successful, res) ==
  AddSuccessful(projs, successful, res)

BookkeepingFailsWholePhase(k, projs, successful, res) ==
  IF ~dispatchers[k].workerErrors /\ \A p \in Range(projs) : ~HasNotOkTest(p, res)
  THEN AddSuccessful(projs, successful, res)
  ELSE successful

Bookkeeping(k, projs, successful, res) ==
  IF ~dispatchers[k].workerErrors THEN AddSuccessful(projs, successful, res)
  ELSE successful

\* test._appendTestResult().status = 'skipped' for every test of the projects
SkipAll(res, projs) ==
  [p \in Configured |-> [t \in 1..MaxTests |->
     IF p \in Range(projs) /\ t \in TestsOf(p) THEN Append(res[p][t], "skipped")
     ELSE res[p][t]]]

\* The loop `for (const { dispatcher, projects } of phases)` from its turn i
\* (0-based) up to its next await: the skip marks of each turn, then either
\* dispatcher.run(phaseTestGroups), where it suspends, or, with no group to
\* run, the bookkeeping and the next turn. The array is read at each turn.
RECURSIVE RunLoop(_, _, _)
RunLoop(i, successful, res) ==
  IF i >= Len(phases)
  THEN [pc |-> "done", i |-> i, cur |-> 0, successful |-> successful, res |-> res,
        run |-> <<>>, seen |-> {}]
  ELSE LET ph == phases[i + 1]
           eligible == SelectSeq(ph.projects, LAMBDA p : ~HasFailedDeps(p, successful))
           skipped == SelectSeq(ph.projects, LAMBDA p : HasFailedDeps(p, successful))
           res2 == SkipAll(res, skipped)
       IN IF CountGroups(eligible) > 0
          THEN [pc |-> "run", i |-> i, cur |-> ph.id, successful |-> successful,
                res |-> res2, run |-> eligible, seen |-> Range(ph.projects)]
          ELSE LET r == RunLoop(i + 1, Bookkeeping(ph.id, ph.projects, successful, res2), res2)
               IN [r EXCEPT !.seen = @ \cup Range(ph.projects)]

\* await dispatcher.run(phaseTestGroups); await dispatcher.stop();
RunWithoutStop(d) == d

StopAfterRun(d) == StopCalled(d)

\* The state the loop leaves when it suspends or ends.
LoopEffect(r) ==
  /\ results' = r.res
  /\ successfulProjects' = r.successful
  /\ rt' = [pc |-> r.pc, i |-> r.i, cur |-> r.cur]
  /\ dispatched' = dispatched \cup Range(r.run)
  /\ visited' = visited \cup r.seen
  /\ dispatchers' = IF r.pc = "run"
                    THEN [dispatchers EXCEPT ![r.cur] = RunCalled(@, ConcatTests(r.run))]
                    ELSE dispatchers

\* The 'test suite' step starts and runs to its first await.
BeginTestSuite ==
  /\ runner.pc = "tasks" /\ ~runner.inTask /\ CurTask = "test suite"
  /\ LET r == RunLoop(0, {}, results)
     IN /\ LoopEffect(r)
        /\ runner' = IF r.pc = "done" THEN Completed(runner, CurTask)
                     ELSE [runner EXCEPT !.inTask = TRUE]
  /\ UNCHANGED <<deps, js, hk, rq, bp, ld, dp, ctxVars, muxVars>>

\* await dispatcher.run(...) returned; await dispatcher.stop() stops the
\* dispatcher and returns; then the bookkeeping of this turn (for the
\* projects of the entry the turn started with), and the loop goes on to its
\* next await or to its end. The pipeline, if it still waits for the step,
\* completes it.
RT_AfterRun ==
  /\ runner.pc # "exited"
  /\ rt.pc = "run" /\ RunResolved(rt.cur)
  /\ LET ph == CHOOSE x \in Range(phases) : x.id = rt.cur
         r == RunLoop(rt.i + 1,
                      Bookkeeping(rt.cur, ph.projects, successfulProjects, results),
                      results)
         stopped == [dispatchers EXCEPT ![rt.cur] = StopAfterRun(@)]
     IN /\ results' = r.res
        /\ successfulProjects' = r.successful
        /\ rt' = [pc |-> r.pc, i |-> r.i, cur |-> r.cur]
        /\ dispatched' = dispatched \cup Range(r.run)
        /\ visited' = visited \cup r.seen
        /\ dispatchers' = IF r.pc = "run"
                          THEN [stopped EXCEPT ![r.cur] = RunCalled(@, ConcatTests(r.run))]
                          ELSE stopped
        /\ runner' = IF r.pc = "done" /\ runner.pc = "tasks" /\ runner.inTask
                     THEN Completed(runner, CurTask) ELSE runner
  /\ UNCHANGED <<deps, js, hk, rq, bp, ld, dp, ctxVars, muxVars>>

\* ------------------------------------------------------------- rollbacks
\* The rollbacks of 'plugin setup' (plugin.teardown), 'global setup'
\* (globalTeardown) and 'report begin' (Multiplexer.onEnd, which is empty).
\* The first two run user code and may throw: the error is reported and the
\* remaining rollbacks still run.
\* teardown of createPlugin: await new Promise(f => stoppableServer.stop(f))
\* throws a TypeError when stoppableServer is undefined.
StopThrows(defined) == ~defined

\* The rollback of createGlobalSetupTask: the function returned by
\* globalSetup, if it returned one (result "returns" or "throws"), and then
\* the globalTeardown hook.
GlobalTeardown(r, result) ==
  LET a == IF result = "none" THEN r ELSE Hook(r, "globalSetup result", 0)
  IN IF result = "throws" THEN a ELSE Hook(a, "globalTeardown", 0)

Teardown ==
  /\ runner.pc = "teardown" /\ runner.td = 0 /\ Len(runner.teardowns) > 0
  /\ Tasks[Head(runner.teardowns)] # "shard tests"
  /\ \E throws \in BOOLEAN, result \in {"none", "returns", "throws"} :
       LET step == Head(runner.teardowns)
           called == IF Tasks[step] = "plugin setup"
                     THEN Hook(runner, "teardown", PluginAt(step))
                     ELSE IF Tasks[step] = "global setup"
                     THEN GlobalTeardown(runner, result)
                     ELSE runner
           popped == [called EXCEPT !.teardowns = Tail(@), !.rolled = Append(@, step)]
       IN /\ (Tasks[step] # "global setup" => result = "none")
          /\ (Tasks[step] = "plugin setup" /\ runner.vite /\ PluginAt(step) = 1
                => throws = StopThrows(runner.stoppableServer))
          /\ (result = "throws" => throws)
          /\ IF throws /\ Tasks[Head(runner.teardowns)] \in {"plugin setup", "global setup"}
             THEN LET error == <<"onError", "teardown">>
                      m == MuxOnError(deferredErrors, log, error)
                  IN /\ runner' = [popped EXCEPT !.threw = @ \cup {Head(runner.teardowns)}]
                     /\ deferredErrors' = m.de /\ log' = m.lg /\ sent' = Append(sent, error)
                     /\ UNCHANGED deferredStdIO
             ELSE runner' = popped /\ UNCHANGED muxVars
  /\ UNCHANGED <<deps, js, hk, rq, bp, ld, dp, ctxVars, runVars>>

\* The rollback of 'shard tests' starts: context.phases.reverse() reverses the
\* array in place, then stop() of the first dispatcher of the reversed array.
ShardTeardownBegin ==
  /\ runner.pc = "teardown" /\ runner.td = 0 /\ Len(runner.teardowns) > 0
  /\ Tasks[Head(runner.teardowns)] = "shard tests"
  /\ phases' = Reverse(phases)
  /\ IF Len(phases) = 0
     THEN /\ runner' = [runner EXCEPT !.teardowns = Tail(@),
                                      !.rolled = Append(@, Head(runner.teardowns))]
          /\ UNCHANGED dispatchers
     ELSE /\ runner' = [runner EXCEPT !.td = 1]
          /\ dispatchers' = [dispatchers EXCEPT ![phases'[1].id] = StopCalled(@)]
  /\ UNCHANGED <<deps, js, hk, rq, bp, ld, dp, rootSuite, ntests, options, testGroups, outputDirs, results, rt,
                 successfulProjects, dispatched, visited, muxVars>>

\* await dispatcher.stop() returned in the rollback: the next dispatcher, or
\* the end of the rollback.
ShardTeardownNext ==
  /\ runner.pc = "teardown" /\ runner.td > 0
  /\ IF runner.td = Len(phases)
     THEN /\ runner' = [runner EXCEPT !.td = 0, !.teardowns = Tail(@),
                                      !.rolled = Append(@, Head(runner.teardowns))]
          /\ UNCHANGED dispatchers
     ELSE /\ runner' = [runner EXCEPT !.td = @ + 1]
          /\ dispatchers' = [dispatchers EXCEPT ![phases[runner.td + 1].id] = StopCalled(@)]
  /\ UNCHANGED <<deps, js, hk, rq, bp, ld, dp, ctxVars, results, rt, successfulProjects, dispatched, visited, muxVars>>

\* The pipeline returned: the runner calls reporter.onExit(result).
ReporterExit ==
  /\ runner.pc = "teardown" /\ runner.td = 0 /\ Len(runner.teardowns) = 0
  /\ \E thrower \in 0..NumReporters :
       LET m == MuxOnExit(deferredErrors, deferredStdIO, log, thrower)
       IN /\ (deferredErrors.isNull => thrower = 0)
          /\ deferredErrors' = m.de /\ deferredStdIO' = m.ds /\ log' = m.lg
  /\ runner' = [runner EXCEPT !.pc = "exited"]
  /\ UNCHANGED <<deps, js, hk, rq, bp, ld, dp, ctxVars, runVars, sent>>

Next ==
  \/ BeginTask
  \/ SimpleTaskDone
  \/ TaskThrows
  \/ GlobalTimeout
  \/ LoadTestsDone
  \/ ShardTests
  \/ ReportBegin
  \/ \E k \in Configured : DispatcherTestEnd(k)
  \/ \E k \in Configured : WorkerCrash(k)
  \/ BeginTestSuite
  \/ RT_AfterRun
  \/ Teardown
  \/ ShardTeardownBegin
  \/ ShardTeardownNext
  \/ ReporterExit

Spec == Init /\ [][Next]_vars

\* ------------------------------------ the pipeline for longer dependency chains
\* Configurations of NumChainProjects projects that form two dependency
\* chains, declared one after the other: projects 1..k, each depending on
\* the one before it, and projects k+1..NumChainProjects likewise.
TwoChains(n) ==
  {[p \in 1..n |-> IF p \in {1, k + 1} THEN {} ELSE {p - 1}] : k \in 0..n}

ChainConfigs == TwoChains(NumChainProjects)

InitChain ==
  /\ deps \in ChainConfigs
  /\ bp = [pc |-> "unused", in |-> <<>>, out |-> <<>>]
  /\ ld = LoaderIdle
  /\ dp = DispatcherIdle
  /\ PipelineInit

SpecChain == InitChain /\ [][Next]_vars

\* ------------------------------------------ the pipeline with a project filter
\* The pipeline for two dependency chains, with or without a project filter
\* (any set of project names), the projects' output directories being all
\* different or all the same.
InitFilter ==
  /\ deps \in TwoChains(NumProjects)
  /\ bp = [pc |-> "unused", in |-> <<>>, out |-> <<>>]
  /\ ld = LoaderIdle
  /\ dp = DispatcherIdle
  /\ runner = RunnerInit(CreateTaskRunner(0, FALSE))
  /\ ContextInit
  /\ js = Js2tsIdle
  /\ hk = HookIdle
  /\ rq = RequireIdle
  /\ \E filtered \in BOOLEAN, names \in SUBSET Projects, shared \in BOOLEAN :
       /\ (~filtered => names = {})
       /\ outputDirs = [filtered |-> filtered, names |-> names,
                        dirOf |-> [p \in Projects |-> IF shared THEN 1 ELSE p],
                        removed |-> {}]

SpecFilter == InitFilter /\ [][Next]_vars

\* ------------------------------------- the pipeline with reporter traffic
\* The same pipeline for a configuration without dependencies, where the
\* collaborators (loader, workers, hooks) also pass errors and output chunks
\* to the Multiplexer, at any moment before onExit.
InitMux ==
  /\ deps = [p \in Projects |-> {}]
  /\ bp = [pc |-> "unused", in |-> <<>>, out |-> <<>>]
  /\ ld = LoaderIdle
  /\ dp = DispatcherIdle
  /\ PipelineInit

\* reporter.onError(error)
MuxErrorArrives ==
  /\ runner.pc # "exited" /\ Len(sent) < MaxEvents
  /\ LET error == <<"onError", Len(sent) + 1>>
         m == MuxOnError(deferredErrors, log, error)
     IN deferredErrors' = m.de /\ log' = m.lg /\ sent' = Append(sent, error)
  /\ UNCHANGED <<deps, js, hk, rq, bp, ld, dp, runner, ctxVars, runVars, deferredStdIO>>

\* reporter.onStdOut(chunk) / reporter.onStdErr(chunk)
MuxStdIOArrives ==
  /\ runner.pc # "exited" /\ Len(sent) < MaxEvents
  /\ \E type \in {"onStdOut", "onStdErr"} :
       LET chunk == <<type, Len(sent) + 1>>
           m == MuxOnStdIO(deferredStdIO, log, chunk)
       IN deferredStdIO' = m.ds /\ log' = m.lg /\ sent' = Append(sent, chunk)
  /\ UNCHANGED <<deps, js, hk, rq, bp, ld, dp, runner, ctxVars, runVars, deferredErrors>>

NextMux == Next \/ MuxErrorArrives \/ MuxStdIOArrives

SpecMux == InitMux /\ [][NextMux]_vars

\* ------------------------------- the pipeline with plugins and global hooks
\* The same pipeline for a configuration without dependencies or with one
\* dependency (two phases), with up to MaxPlugins plugin registrations and
\* with or without globalSetup/Teardown.
InitTasks ==
  /\ deps \in {[p \in Projects |-> {}], [p \in Projects |-> IF p = 2 THEN {1} ELSE {}]}
  /\ bp = [pc |-> "unused", in |-> <<>>, out |-> <<>>]
  /\ ld = LoaderIdle
  /\ dp = DispatcherIdle
  /\ \E n \in 0..MaxPlugins, globalHooks \in BOOLEAN :
       runner = RunnerInit(CreateTaskRunner(n, globalHooks))
  /\ ContextInit
  /\ outputDirs = NoProjectFilter
  /\ js = Js2tsIdle
  /\ hk = HookIdle
  /\ rq = RequireIdle

SpecTasks == InitTasks /\ [][Next]_vars

\* The same pipeline when the first plugin is the vite plugin of createPlugin.
InitVite ==
  /\ deps \in {[p \in Projects |-> {}], [p \in Projects |-> IF p = 2 THEN {1} ELSE {}]}
  /\ bp = [pc |-> "unused", in |-> <<>>, out |-> <<>>]
  /\ ld = LoaderIdle
  /\ dp = DispatcherIdle
  /\ \E n \in 1..MaxPlugins, globalHooks \in BOOLEAN :
       runner = [RunnerInit(CreateTaskRunner(n, globalHooks)) EXCEPT !.vite = TRUE]
  /\ ContextInit
  /\ outputDirs = NoProjectFilter
  /\ js = Js2tsIdle
  /\ hk = HookIdle
  /\ rq = RequireIdle

SpecVite == InitVite /\ [][Next]_vars

\* ------------------------------------------------------------ TestLoader
Files == 1..NumFiles

\* Every list of at most n files (a file may be listed more than once).
RECURSIVE FileLists(_)
FileLists(n) ==
  IF n = 0 THEN {<<>>}
  ELSE LET S == FileLists(n - 1)
       IN S \cup {Append(l, f) : l \in {x \in S : Len(x) = n - 1}, f \in Files}

\* if (environment === 'worker') throw e;
AlwaysRethrows(environment) == TRUE

Rethrows(environment) == environment = "worker"

\* TestLoader.loadTestFile: the cached suite if there is one; else a new
\* suite, cached if requireOrImport returns; if it throws, the error is
\* rethrown in a worker and pushed to loadErrors in the loader.
\* (`required` tells whether requireOrImport was called.)
LoadTestFileCachingEarly(file, environment, cache, id, throws) ==
  IF \E s \in cache : s.file = file
  THEN [threw |-> FALSE, suite |-> CHOOSE s \in cache : s.file = file,
        cache |-> cache, errors |-> <<>>, required |-> FALSE]
  ELSE LET suite == [file |-> file, id |-> id]
       IN IF ~throws
          THEN [threw |-> FALSE, suite |-> suite, cache |-> cache \cup {suite},
                errors |-> <<>>, required |-> TRUE]
          ELSE IF Rethrows(environment)
          THEN [threw |-> TRUE, suite |-> suite, cache |-> cache \cup {suite},
                errors |-> <<>>, required |-> TRUE]
          ELSE [threw |-> FALSE, suite |-> suite, cache |-> cache \cup {suite},
                errors |-> <<file>>, required |-> TRUE]

LoadTestFile(file, environment, cache, id, throws) ==
  IF \E s \in cache : s.file = file
  THEN [threw |-> FALSE, suite |-> CHOOSE s \in cache : s.file = file,
        cache |-> cache, errors |-> <<>>, required |-> FALSE]
  ELSE LET suite == [file |-> file, id |-> id]
       IN IF ~throws
          THEN [threw |-> FALSE, suite |-> suite, cache |-> cache \cup {suite},
                errors |-> <<>>, required |-> TRUE]
          ELSE IF Rethrows(environment)
          THEN [threw |-> TRUE, suite |-> suite, cache |-> cache, errors |-> <<>>,
                required |-> TRUE]
          ELSE [threw |-> FALSE, suite |-> suite, cache |-> cache, errors |-> <<file>>,
                required |-> TRUE]

\* What a call of loadTestFile did: the file, whether it called
\* requireOrImport and whether that returned, and the suite of the call.
CallRecord(file, r, throws) ==
  [file |-> file, required |-> r.required, ok |-> ~(r.required /\ throws),
   threw |-> r.threw, suite |-> r.suite]

\* A call of loadTestFilesInProcess; cachedFileSuites may hold suites of the
\* files an earlier loader of the same process has loaded.
InitLoader ==
  /\ deps = [p \in Projects |-> {}]
  /\ bp = [pc |-> "unused", in |-> <<>>, out |-> <<>>]
  /\ dp = DispatcherIdle
  /\ PipelineInit
  /\ \E l \in FileLists(MaxFileList), cached \in SUBSET Files :
       ld = [LoaderIdle EXCEPT !.pc = "loading", !.testFiles = l,
                               !.cache = {[file |-> f, id |-> 0] : f \in cached}]

\* One turn of `for (const file of testFiles)`: loadTestFile, then _addSuite.
LoadNextFile ==
  /\ ld.pc = "loading" /\ ld.pos < Len(ld.testFiles)
  /\ \E throws \in BOOLEAN :
       LET file == ld.testFiles[ld.pos + 1]
           r == LoadTestFile(file, "loader", ld.cache, ld.nextId, throws)
       IN IF r.threw
          THEN ld' = [ld EXCEPT !.pc = "threw",
                                !.calls = Append(@, CallRecord(file, r, throws))]
          ELSE ld' = [ld EXCEPT !.pos = @ + 1,
                                !.cache = r.cache,
                                !.loadErrors = @ \o r.errors,
                                !.suites = Append(@, r.suite),
                                !.failed = Append(@, Len(r.errors) > 0),
                                !.nextId = @ + 1,
                                !.calls = Append(@, CallRecord(file, r, throws))]
  /\ UNCHANGED <<deps, js, hk, rq, bp, dp, runner, ctxVars, runVars, muxVars>>

\* After the loop: return rootSuite.
LoaderReturns ==
  /\ ld.pc = "loading" /\ ld.pos = Len(ld.testFiles)
  /\ ld' = [ld EXCEPT !.pc = "returned"]
  /\ UNCHANGED <<deps, js, hk, rq, bp, dp, runner, ctxVars, runVars, muxVars>>

NextLoader == LoadNextFile \/ LoaderReturns

SpecLoader == InitLoader /\ [][NextLoader]_vars

\* ------------------------------------------ cachedFileSuites of a process
\* A process that has loaded nothing yet: cachedFileSuites is empty.
InitCache ==
  /\ deps = [p \in Projects |-> {}]
  /\ bp = [pc |-> "unused", in |-> <<>>, out |-> <<>>]
  /\ dp = DispatcherIdle
  /\ PipelineInit
  /\ ld = [LoaderIdle EXCEPT !.pc = "process"]

\* A call of loadTestFile on some TestLoader of the process, in the loader or
\* in a worker, awaited before the next one; the loader only contributes
\* _rootDir, which the cache does not read.
CallLoadTestFile ==
  /\ ld.pc = "process" /\ Len(ld.calls) < MaxLoads
  /\ \E file \in Files, environment \in {"loader", "worker"}, throws \in BOOLEAN :
       LET r == LoadTestFile(file, environment, ld.cache, ld.nextId, throws)
       IN ld' = [ld EXCEPT !.cache = r.cache,
                           !.loadErrors = @ \o r.errors,
                           !.nextId = @ + 1,
                           !.calls = Append(@, CallRecord(file, r, throws))]
  /\ UNCHANGED <<deps, js, hk, rq, bp, dp, runner, ctxVars, runVars, muxVars>>

SpecCache == InitCache /\ [][CallLoadTestFile]_vars

\* ------------------------------------------------- buildPhases on its own
InitPhases ==
  /\ deps \in DepConfigs
  /\ \E s \in SuiteLists : bp = [pc |-> "ready", in |-> s, out |-> <<>>]
  /\ ld = LoaderIdle
  /\ dp = DispatcherIdle
  /\ PipelineInit

\* buildPhases has no throw statement: every call returns a list.
CallBuildPhases ==
  /\ bp.pc = "ready"
  /\ bp' = [bp EXCEPT !.pc = "returned", !.out = buildPhases(bp.in)]
  /\ UNCHANGED <<deps, js, hk, rq, ld, dp, runner, ctxVars, runVars, muxVars>>

NextPhases == CallBuildPhases

SpecPhases == InitPhases /\ [][NextPhases]_vars

\* ---------------------------------------------- the Dispatcher on its own
\* The groups createTestGroups hands to run(): the tests in order, cut into
\* consecutive non-empty groups of the given sizes.
RECURSIVE GroupsOf(_, _)
GroupsOf(sizes, first) ==
  IF Len(sizes) = 0 THEN <<>>
  ELSE <<[i \in 1..sizes[1] |-> first + i - 1]>> \o GroupsOf(Tail(sizes), first + sizes[1])

InitDispatcher ==
  /\ deps = [p \in Projects |-> {}]
  /\ bp = [pc |-> "unused", in |-> <<>>, out |-> <<>>]
  /\ ld = LoaderIdle
  /\ PipelineInit
  /\ \E R \in 0..MaxRetries, sizes \in Compositions(NumDTests) :
       dp = [DispatcherIdle EXCEPT !.pc = "running", !.retries = R,
                                   !.queue = GroupsOf(sizes, 1)]

Alive(d) == {w \in Procs : d.workers[w].st \in {"idle", "busy", "stopping"}}

Working(d) == {w \in Procs : d.workers[w].st \in {"busy", "stopping"}}

\* The attempt count is below the limit of retries + 1 attempts.
RetriesLeftOffByOne(attempts, retries) == attempts < retries

RetriesLeft(attempts, retries) == attempts <= retries

\* A test re-queued after a crash is not re-queued a second time.
CrashRetryAlwaysAllowed(t, crashed) == TRUE

CrashRetryAllowed(t, crashed) == t \notin crashed

\* A worker whose test timed out is discarded when its group is done.
AfterGroupAlwaysIdle(discard) == "idle"

AfterGroup(discard) == IF discard THEN "gone" ELSE "idle"

\* Tests of `tests` that never started end 'interrupted'.
LeftPending(res, tests) == res

InterruptNotStarted(res, tests) ==
  [t \in DTests |-> IF t \in tests /\ res[t] = <<>> THEN <<"interrupted">> ELSE res[t]]

\* The final reported status of a test: 'flaky' if a later attempt passed,
\* else the status of the last attempt.
ReportedStatus(rs) ==
  IF Len(rs) = 0 THEN "pending"
  ELSE IF rs[Len(rs)] = "passed" /\ Len(rs) > 1 THEN "flaky"
  ELSE rs[Len(rs)]

\* The final outcome of the invocation.
OutcomeIgnoringFatal(d) ==
  IF d.cancelled THEN "interrupted"
  ELSE IF \/ \E t \in DTests : ReportedStatus(d.results[t]) \notin {"passed", "flaky", "skipped"}
          \/ d.workerErrors
       THEN "failed" ELSE "ok"

Outcome(d) ==
  IF d.cancelled THEN "interrupted"
  ELSE IF \/ \E t \in DTests : ReportedStatus(d.results[t]) \notin {"passed", "flaky", "skipped"}
          \/ d.workerErrors
          \/ d.fatal > 0
       THEN "failed" ELSE "ok"

\* Greedy assignment: the next group goes to an idle worker, or to a new
\* worker process when none is idle and fewer than NumWorkers are alive.
Assign(w) ==
  /\ dp.pc = "running" /\ ~dp.cancelled /\ Len(dp.queue) > 0
  /\ \/ dp.workers[w].st = "idle"
     \/ /\ dp.workers[w].st = "none"
        /\ \A v \in Procs : v < w => dp.workers[v].st # "none"
        /\ \A v \in Procs : dp.workers[v].st # "idle"
        /\ Cardinality(Alive(dp)) < NumWorkers
  /\ dp' = [dp EXCEPT !.queue = Tail(@),
                      !.workers[w] = [@ EXCEPT !.st = "busy", !.group = Head(dp.queue),
                                               !.cur = 0, !.groups = @ + 1]]
  /\ UNCHANGED <<deps, js, hk, rq, bp, ld, runner, ctxVars, runVars, muxVars>>

\* {testBegin}: the worker starts the next test of its group; the deadline
\* of the test starts.
TestBegin(w) ==
  /\ dp.pc = "running" /\ dp.workers[w].st = "busy" /\ dp.workers[w].cur = 0
  /\ dp' = [dp EXCEPT !.workers[w].cur = Head(dp.workers[w].group),
                      !.started = @ \cup {Head(dp.workers[w].group)}]
  /\ UNCHANGED <<deps, js, hk, rq, bp, ld, runner, ctxVars, runVars, muxVars>>

\* The attempt of the running test of w ends with status s: the result is
\* recorded, the test is re-queued alone if the retry policy says so, and
\* the worker goes on with its group, becomes idle, or is gone.
AfterTest(d, w, s) ==
  LET wk == d.workers[w]
      t == wk.cur
      rs == Append(d.results[t], s)
      retry == /\ s \in {"failed", "timedOut"} /\ ~d.cancelled
               /\ RetriesLeft(Len(rs), d.retries)
               /\ CrashRetryAllowed(t, d.crashed)
      rest == Tail(wk.group)
      res1 == [d.results EXCEPT ![t] = rs]
      timedOut == s = "timedOut"
      discard == wk.discard \/ timedOut
      tmo == IF timedOut /\ wk.tmo = <<>> THEN <<t, Len(rs), wk.groups>> ELSE wk.tmo
  IN [d EXCEPT
        !.results = res1,
        !.queue = IF retry THEN Append(@, <<t>>) ELSE @,
        !.workers[w] =
           IF wk.st = "stopping"
           THEN [wk EXCEPT !.st = "gone", !.group = <<>>, !.cur = 0,
                           !.discard = discard, !.tmo = tmo]
           ELSE IF Len(rest) = 0
           THEN [wk EXCEPT !.st = AfterGroup(discard), !.group = <<>>, !.cur = 0,
                           !.discard = discard, !.tmo = tmo]
           ELSE [wk EXCEPT !.group = rest, !.cur = 0, !.discard = discard, !.tmo = tmo]]

\* {testEnd(status, attempt)} arrives before the deadline.
TestEnd(w) ==
  /\ dp.pc = "running" /\ w \in Working(dp) /\ dp.workers[w].cur # 0
  /\ \E s \in {"passed", "failed"} : dp' = AfterTest(dp, w, s)
  /\ UNCHANGED <<deps, js, hk, rq, bp, ld, runner, ctxVars, runVars, muxVars>>

\* The deadline of the running test elapses before {testEnd}: the
\* dispatcher synthesizes 'timedOut'.
Deadline(w) ==
  /\ dp.pc = "running" /\ w \in Working(dp) /\ dp.workers[w].cur # 0
  /\ dp' = AfterTest(dp, w, "timedOut")
  /\ UNCHANGED <<deps, js, hk, rq, bp, ld, runner, ctxVars, runVars, muxVars>>

\* A worker process exits unexpectedly while owning a group: every test of
\* the group without a terminal status is marked 'failed', and re-queued
\* into a new worker if it has retries left.
WorkerExit(w) ==
  /\ dp.pc = "running" /\ w \in Working(dp)
  /\ LET wk == dp.workers[w]
         res1 == [t \in DTests |->
                    IF t \in Range(wk.group) THEN Append(dp.results[t], "failed")
                    ELSE dp.results[t]]
         again == SelectSeq(wk.group, LAMBDA t :
                    /\ ~dp.cancelled
                    /\ RetriesLeft(Len(res1[t]), dp.retries)
                    /\ CrashRetryAllowed(t, dp.crashed))
     IN dp' = [dp EXCEPT
                 !.results = res1,
                 !.crashAt = [t \in DTests |->
                                IF t \in Range(wk.group) /\ dp.crashAt[t] = 0
                                THEN Len(res1[t]) ELSE dp.crashAt[t]],
                 !.crashed = @ \cup Range(again),
                 !.queue = IF Len(again) > 0 THEN Append(@, again) ELSE @,
                 !.workerErrors = TRUE,
                 !.workers[w] = [wk EXCEPT !.st = "gone", !.group = <<>>, !.cur = 0]]
  /\ UNCHANGED <<deps, js, hk, rq, bp, ld, runner, ctxVars, runVars, muxVars>>

\* The tests a worker is running.
Running(d) == {d.workers[w].cur : w \in Working(d)} \ {0}

\* The interrupt signal: no further assignment; the tests not yet started,
\* queued or waiting in a worker's group, end 'interrupted' at once; idle
\* workers are stopped and busy workers are asked to stop.
Cancel ==
  /\ dp.pc = "running" /\ ~dp.cancelled
  /\ dp' = [dp EXCEPT
              !.cancelled = TRUE,
              !.results = InterruptNotStarted(@, DTests \ Running(dp)),
              !.queue = <<>>,
              !.workers = [w \in Procs |->
                             IF dp.workers[w].st = "idle"
                             THEN [dp.workers[w] EXCEPT !.st = "gone"]
                             ELSE IF dp.workers[w].st = "busy"
                             THEN [dp.workers[w] EXCEPT
                                     !.st = "stopping",
                                     !.group = IF dp.workers[w].cur = 0 THEN <<>>
                                               ELSE <<dp.workers[w].cur>>]
                             ELSE dp.workers[w]]]
  /\ UNCHANGED <<deps, js, hk, rq, bp, ld, runner, ctxVars, runVars, muxVars>>

\* A worker asked to stop between two tests stops gracefully.
StopAck(w) ==
  /\ dp.pc = "running" /\ dp.workers[w].st = "stopping" /\ dp.workers[w].cur = 0
  /\ dp' = [dp EXCEPT !.workers[w].st = "gone"]
  /\ UNCHANGED <<deps, js, hk, rq, bp, ld, runner, ctxVars, runVars, muxVars>>

\* The grace period elapses while the worker is still inside a test.
ForceKill(w) ==
  /\ dp.pc = "running" /\ dp.workers[w].st = "stopping" /\ dp.workers[w].cur # 0
  /\ dp' = [dp EXCEPT
              !.results[dp.workers[w].cur] = Append(@, "interrupted"),
              !.workers[w] = [@ EXCEPT !.st = "gone", !.group = <<>>, !.cur = 0]]
  /\ UNCHANGED <<deps, js, hk, rq, bp, ld, runner, ctxVars, runVars, muxVars>>

\* run() resolves: every group has reached a terminal outcome or the run
\* was stopped, and no worker owns a group.
Resolve ==
  /\ dp.pc = "running" /\ Len(dp.queue) = 0 /\ Working(dp) = {}
  /\ dp' = [dp EXCEPT !.pc = "resolved"]
  /\ UNCHANGED <<deps, js, hk, rq, bp, ld, runner, ctxVars, runVars, muxVars>>

\* stop(): an idle worker is shut down; the teardown of its worker-scoped
\* fixtures may throw, outside any test.
StopWorker(w) ==
  /\ dp.pc = "resolved" /\ dp.workers[w].st = "idle"
  /\ \E throws \in BOOLEAN :
       dp' = [dp EXCEPT !.workers[w].st = "gone",
                        !.fatal = IF throws THEN @ + 1 ELSE @]
  /\ UNCHANGED <<deps, js, hk, rq, bp, ld, runner, ctxVars, runVars, muxVars>>

\* The end of the invocation: the errors that were not part of any test are
\* flushed to the reporter once, with their count; the outcome is final.
ReportEnd ==
  /\ dp.pc = "resolved" /\ Alive(dp) = {}
  /\ dp' = [dp EXCEPT !.pc = "ended",
                      !.reported = IF dp.fatal > 0 THEN <<dp.fatal>> ELSE <<>>,
                      !.outcome = Outcome(dp)]
  /\ UNCHANGED <<deps, js, hk, rq, bp, ld, runner, ctxVars, runVars, muxVars>>

DispatcherProgress ==
  \/ \E w \in Procs : Assign(w) \/ TestBegin(w) \/ Deadline(w) \/ StopAck(w) \/ ForceKill(w)
  \/ Resolve

NextDispatcher ==
  \/ \E w \in Procs : Assign(w)
  \/ \E w \in Procs : TestBegin(w)
  \/ \E w \in Procs : TestEnd(w)
  \/ \E w \in Procs : Deadline(w)
  \/ \E w \in Procs : WorkerExit(w)
  \/ Cancel
  \/ \E w \in Procs : StopAck(w)
  \/ \E w \in Procs : ForceKill(w)
  \/ Resolve
  \/ \E w \in Procs : StopWorker(w)
  \/ ReportEnd

SpecDispatcher == InitDispatcher /\ [][NextDispatcher]_vars

\* The timers of the dispatcher fire and its own steps are taken; a worker
\* need not answer.
SpecDispatcherFair == SpecDispatcher /\ WF_vars(DispatcherProgress)

\* ------------------------- buildPhases called twice on one configuration
\* Every order in which the suites of s may be listed.
Perms(s) == {q \in [1..Len(s) -> Range(s)] : Range(q) = Range(s)}

InitPhasesTwice ==
  /\ deps \in DepConfigs
  /\ \E s \in SuiteLists : \E s2 \in Perms(s) :
       bp = [pc |-> "ready", in |-> s, out |-> <<>>, in2 |-> s2, out2 |-> <<>>]
  /\ ld = LoaderIdle
  /\ dp = DispatcherIdle
  /\ PipelineInit

\* A second call, with the same project suites listed in the order in2.
CallBuildPhasesAgain ==
  /\ bp.pc = "returned"
  /\ bp' = [bp EXCEPT !.pc = "returned2", !.out2 = buildPhases(bp.in2)]
  /\ UNCHANGED <<deps, js, hk, rq, ld, dp, runner, ctxVars, runVars, muxVars>>

NextPhasesTwice == CallBuildPhases \/ CallBuildPhasesAgain

SpecPhasesTwice == InitPhasesTwice /\ [][NextPhasesTwice]_vars

\* ------------------------------------- one notification of the Multiplexer
\* The notification hooks of the Multiplexer that a caller may invoke at any
\* time; 'onEnd' stands for the onEnd round of Multiplexer.onExit.
Hooks == {"onTestBegin", "onTestEnd", "onStdOut", "onStdErr", "onError",
          "onStepBegin", "onStepEnd", "onEnd"}

\* Hooks whose call of reporter.hook is inside wrap(), or behind .catch().
Guarded == {"onTestBegin", "onTestEnd", "onStdOut", "onStdErr", "onError",
            "onStepBegin", "onEnd"}

\* Hooks that are buffered while onBegin has not been reported.
Deferred == {"onStdOut", "onStdErr", "onError"}

\* for (const reporter of this._reporters) ...reporter.hook?.(...): the
\* reporters that receive the notification and whether an exception leaves
\* the loop, given the reporters that throw from the hook.
CallReporters(hook, throwers) ==
  IF hook \in Guarded \/ throwers = {}
  THEN [received |-> Reporters, propagated |-> FALSE]
  ELSE [received |-> {r \in Reporters : \A t \in throwers : r <= t},
        propagated |-> TRUE]

\* A Multiplexer before or after onBegin, and the reporters that throw from
\* the hook about to be called (onBegin itself does not throw here).
InitHook ==
  /\ deps = [p \in Projects |-> {}]
  /\ bp = [pc |-> "unused", in |-> <<>>, out |-> <<>>]
  /\ ld = LoaderIdle
  /\ dp = DispatcherIdle
  /\ runner = RunnerInit(CreateTaskRunner(0, FALSE))
  /\ ContextInit
  /\ outputDirs = NoProjectFilter
  /\ js = Js2tsIdle
  /\ rq = RequireIdle
  /\ \E hook \in Hooks, begun \in BOOLEAN, throwers \in SUBSET Reporters :
       hk = [HookIdle EXCEPT !.pc = "ready", !.hook = hook, !.begun = begun,
                             !.throwers = throwers]

\* The caller invokes the hook on the Multiplexer.
CallHook ==
  /\ hk.pc = "ready"
  /\ hk' = IF hk.hook \in Deferred /\ ~hk.begun
           THEN [hk EXCEPT !.pc = "returned"]
           ELSE LET c == CallReporters(hk.hook, hk.throwers)
                IN [hk EXCEPT !.pc = "returned", !.received = c.received,
                              !.propagated = c.propagated]
  /\ UNCHANGED <<deps, js, rq, bp, ld, dp, runner, ctxVars, runVars, muxVars>>

NextHook == CallHook

SpecHook == InitHook /\ [][NextHook]_vars

\* -------------------------------------------- requireOrImport on its own
\* Module._resolveFilename is 0 for the function installed before the first
\* call and c for the resolveFilename closure that call c installed.
Calls == 1..NumCalls

InitRequire ==
  /\ deps = [p \in Projects |-> {}]
  /\ bp = [pc |-> "unused", in |-> <<>>, out |-> <<>>]
  /\ ld = LoaderIdle
  /\ dp = DispatcherIdle
  /\ PipelineInit

\* installTransform: save Module._resolveFilename, install the closure, add
\* the pirates hook.
InstallTransform(r, c) ==
  [r EXCEPT !.original[c] = r.resolveFilename, !.resolveFilename = c,
            !.hooks = @ \cup {c}]

\* The function installTransform returns: reverted = true, put back the
\* saved Module._resolveFilename, revertPirates().
RevertBabelRequire(r, c) ==
  [r EXCEPT !.resolveFilename = r.original[c], !.hooks = @ \ {c}]

\* requireOrImport of a file that is not a module: install, require(file)
\* and the finally block run without an await in between.
RequireFile(c) ==
  /\ rq.pc[c] = "idle"
  /\ \E throws \in BOOLEAN :
       rq' = [RevertBabelRequire(InstallTransform(rq, c), c)
                EXCEPT !.pc[c] = IF throws THEN "threw" ELSE "returned"]
  /\ UNCHANGED <<deps, js, hk, bp, ld, dp, runner, ctxVars, runVars, muxVars>>

\* requireOrImport of a module up to `await esmImport()`.
ImportBegins(c) ==
  /\ rq.pc[c] = "idle"
  /\ rq' = [InstallTransform(rq, c) EXCEPT !.pc[c] = "awaiting"]
  /\ UNCHANGED <<deps, js, hk, bp, ld, dp, runner, ctxVars, runVars, muxVars>>

\* The import settles and the finally block runs.
ImportSettles(c) ==
  /\ rq.pc[c] = "awaiting"
  /\ \E throws \in BOOLEAN :
       rq' = [RevertBabelRequire(rq, c)
                EXCEPT !.pc[c] = IF throws THEN "threw" ELSE "returned"]
  /\ UNCHANGED <<deps, js, hk, bp, ld, dp, runner, ctxVars, runVars, muxVars>>

NextRequire == \E c \in Calls : RequireFile(c) \/ ImportBegins(c) \/ ImportSettles(c)

SpecRequire == InitRequire /\ [][NextRequire]_vars

\* ------------------------------------------------------------------ js2ts
\* Paths are sequences of characters.
DotJs == <<".", "j", "s">>
DotJsx == <<".", "j", "s", "x">>
DotMjs == <<".", "m", "j", "s">>
DotTs == <<".", "t", "s">>
DotTsx == <<".", "t", "s", "x">>

EndsWith(s, suffix) ==
  Len(s) >= Len(suffix) /\ SubSeq(s, Len(s) - Len(suffix) + 1, Len(s)) = suffix

\* resolved.match(/(.*)(\.js|\.jsx|\.mjs)$/): [1] is the longest prefix that
\* leaves one of the three extensions as the rest of the string.
Match(resolved) ==
  LET exts == {e \in {DotJs, DotJsx, DotMjs} : EndsWith(resolved, e)}
  IN IF exts = {} THEN [matched |-> FALSE, m1 |-> <<>>, m2 |-> <<>>]
     ELSE LET e == CHOOSE x \in exts : \A y \in exts : Len(x) <= Len(y)
          IN [matched |-> TRUE, m1 |-> SubSeq(resolved, 1, Len(resolved) - Len(e)), m2 |-> e]

\* String.prototype.replace(pattern, replacement) with a string pattern:
\* the first occurrence only.
Replace(s, pattern, replacement) ==
  LET hits == {i \in 1..(Len(s) - Len(pattern) + 1) :
                 SubSeq(s, i, i + Len(pattern) - 1) = pattern}
  IN IF hits = {} THEN s
     ELSE LET i == CHOOSE x \in hits : \A y \in hits : x <= y
          IN SubSeq(s, 1, i - 1) \o replacement \o SubSeq(s, i + Len(pattern), Len(s))

Undefined == [defined |-> FALSE, path |-> <<>>]

Returned(path) == [defined |-> TRUE, path |-> path]

js2tsIgnoringExisting(resolved, fs) ==
  LET match == Match(resolved)
  IN IF ~match.matched THEN Undefined
     ELSE LET tsResolved == match.m1 \o Replace(match.m2, <<"j", "s">>, <<"t", "s">>)
              tsxResolved == match.m1 \o Replace(match.m2, <<"j", "s">>, <<"t", "s", "x">>)
          IN IF tsResolved \in fs THEN Returned(tsResolved)
             ELSE IF tsxResolved \in fs THEN Returned(tsxResolved)
             ELSE Undefined

\* js2ts(resolved), fs being the set of paths for which fs.existsSync is true.
js2ts(resolved, fs) ==
  LET match == Match(resolved)
  IN IF ~match.matched \/ resolved \in fs THEN Undefined
     ELSE LET tsResolved == match.m1 \o Replace(match.m2, <<"j", "s">>, <<"t", "s">>)
              tsxResolved == match.m1 \o Replace(match.m2, <<"j", "s">>, <<"t", "s", "x">>)
          IN IF tsResolved \in fs THEN Returned(tsResolved)
             ELSE IF tsxResolved \in fs THEN Returned(tsxResolved)
             ELSE Undefined

\* The paths of the bounded file system: two base names, one of which itself
\* contains '.js', with every extension that js2ts reads or builds and some
\* it has nothing to do with.
Bases == {<<"a">>, <<"b", ".", "j", "s">>}

Extensions ==
  {DotJs, DotJsx, DotMjs, DotTs, DotTsx, <<".", "m", "t", "s">>,
   <<".", "t", "s", "x", "x">>, <<".", "m", "t", "s", "x">>, <<".", "c", "j", "s">>,
   <<"j", "s">>}

Paths == {b \o e : b \in Bases, e \in Extensions}

RECURSIVE SubsetsUpTo(_, _)
SubsetsUpTo(S, n) ==
  IF n = 0 THEN {{}}
  ELSE LET T == SubsetsUpTo(S, n - 1) IN T \cup {t \cup {x} : t \in T, x \in S}

InitJs2ts ==
  /\ deps = [p \in Projects |-> {}]
  /\ bp = [pc |-> "unused", in |-> <<>>, out |-> <<>>]
  /\ ld = LoaderIdle
  /\ dp = DispatcherIdle
  /\ runner = RunnerInit(CreateTaskRunner(0, FALSE))
  /\ ContextInit
  /\ outputDirs = NoProjectFilter
  /\ hk = HookIdle
  /\ rq = RequireIdle
  /\ \E resolved \in Paths, fs \in SubsetsUpTo(Paths, MaxExisting) :
       js = [pc |-> "ready", resolved |-> resolved, fs |-> fs, out |-> Undefined]

CallJs2ts ==
  /\ js.pc = "ready"
  /\ js' = [js EXCEPT !.pc = "returned", !.out = js2ts(js.resolved, js.fs)]
  /\ UNCHANGED <<deps, hk, rq, bp, ld, dp, runner, ctxVars, runVars, muxVars>>

NextJs2ts == CallJs2ts

SpecJs2ts == InitJs2ts /\ [][NextJs2ts]_vars

\* ------------------------------------------------ properties of buildPhases
\* The projects of the k-th returned phase.
PhaseSet(k) == Range(bp.out[k])

Placed == UNION {PhaseSet(k) : k \in 1..Len(bp.out)}

\* C2: in the list buildPhases returns, every dependency of a project of
\* phase k is in a phase of strictly smaller index (for every dependency
\* graph, the acyclic ones among them).
C2_DepsInEarlierPhase ==
  bp.pc = "returned" =>
    \A k \in 1..Len(bp.out) : \A p \in PhaseSet(k) : \A d \in deps[p] :
      \E j \in 1..(k - 1) : d \in PhaseSet(j)

\* An acyclic chain of three projects was given and came back as three phases.
C2_Witness ==
  /\ bp.pc = "returned" /\ Acyclic
  /\ Len(bp.out) >= 3
  /\ \E p \in PhaseSet(3) : \E d \in deps[p] : d \in PhaseSet(2)

\* C3: for a dependency graph with a cycle, buildPhases does not return a
\* phase list (it reports a circular-dependency error instead).
C3_CycleIsReported ==
  ~Acyclic => bp.pc # "returned"

\* C5: for an acyclic dependency graph, the returned phases partition the
\* input project suites: each input suite is in exactly one phase, at
\* exactly one position, whether or not its dependencies have suites.
C5_PhasesPartitionInput ==
  (bp.pc = "returned" /\ Acyclic) =>
    /\ Placed = Range(bp.in)
    /\ \A p \in Range(bp.in) :
         Cardinality({x \in {<<k, i>> : k \in 1..Len(bp.out), i \in 1..NumProjects} :
                        x[2] <= Len(bp.out[x[1]]) /\ bp.out[x[1]][x[2]] = p}) = 1

\* ---------------------------------------------- properties of the test run
NotOk(p) == HasNotOkTest(p, results)

\* Every test of p has a record, and every record of p's tests is a skip.
AllSkipped(p) ==
  \A t \in TestsOf(p) :
    /\ Len(results[p][t]) > 0
    /\ \A i \in 1..Len(results[p][t]) : results[p][t][i] = "skipped"

NoSkipMark(p) ==
  \A t \in TestsOf(p) : \A i \in 1..Len(results[p][t]) : results[p][t][i] # "skipped"

\* C1: when a declared dependency A of project B has a test that is not ok,
\* no test group of B is ever handed to a dispatcher, B is not in
\* successfulProjects, and once the phase loop has taken B's turn every test
\* of B carries the status 'skipped' and no other.
C1_FailedDependencySkipsDependent ==
  \A B \in Configured : \A A \in deps[B] :
    NotOk(A) =>
      /\ B \notin dispatched
      /\ B \notin successfulProjects
      /\ (B \in visited => AllSkipped(B))

\* B's turn was taken after its dependency A failed, and B has tests.
C1_Witness ==
  \E B \in Configured : \E A \in deps[B] :
    /\ NotOk(A) /\ A \in dispatched
    /\ B \in visited /\ ntests[B] > 0 /\ AllSkipped(B)

\* C4: with a cycle in the dependency relation, no dispatcher's run() is
\* ever called and no test of any project gets a result.
C4_CycleAbortsBeforeAnyRun ==
  ~Acyclic =>
    /\ dispatched = {}
    /\ \A k \in Configured : dispatchers[k].runCalls = 0
    /\ \A p \in Configured : \A t \in 1..MaxTests : results[p][t] = <<>>

\* A test that ran to a terminal status, and a project with such a test.
Terminal(rs) == \E i \in 1..Len(rs) : rs[i] \in {"passed", "failed", "timedOut"}

HasRun(q) == \E t \in TestsOf(q) : Terminal(results[q][t])

\* C6: when test groups have been handed to the dispatcher of a phase, the
\* dispatcher of every earlier phase has nothing left to run, and, if it was
\* run, its run() has resolved and its stop() has completed; and when a test
\* of the later phase has run, every dispatched test of the earlier phase is
\* terminal.
C6_PhasesRunInOrder ==
  \A j \in Configured : \A k \in Configured :
    (j < k /\ dispatchers[k].runCalls > 0) =>
      /\ RunResolved(j)
      /\ Len(dispatchers[j].queue) = 0
      /\ (dispatchers[j].runCalls > 0 => dispatchers[j].stopped)
      /\ \A x \in Range(phases) : \A y \in Range(phases) :
           (x.id = j /\ y.id = k /\ \E q \in Range(y.projects) : HasRun(q)) =>
             \A p \in Range(x.projects) \cap dispatched : \A t \in TestsOf(p) :
               Terminal(results[p][t])

\* The first phase was run and a test of the second phase has run.
C6_Witness ==
  /\ dispatchers[1].runCalls > 0 /\ dispatchers[1].stopped
  /\ dispatchers[2].runCalls > 0
  /\ \E y \in Range(phases) : y.id = 2 /\ \E q \in Range(y.projects) : HasRun(q)

\* C7: once the dispatcher of a phase has worker errors, no test group of a
\* later phase is, or has been, handed to a dispatcher.
C7_NoLaterPhaseAfterWorkerErrors ==
  \A j \in Configured : \A k \in Configured :
    (j < k /\ dispatchers[j].workerErrors) => dispatchers[k].runCalls = 0

\* The first phase had a worker error while one of its projects passed, and
\* the loop has taken the turn of a later phase that has tests.
C7_Witness ==
  /\ dispatchers[1].workerErrors
  /\ runner.status = "passed"
  /\ \E x \in Range(phases) : \E p \in Range(x.projects) : \E q \in Range(phases[1].projects) :
       /\ x.id > 1 /\ p \in visited /\ ntests[p] > 0
       /\ phases[1].id = 1 /\ q \in deps[p] /\ ~NotOk(q) /\ ntests[q] > 0

\* C8: a project with a skip mark is not in successfulProjects, and a project
\* that depends, in one step or more, on a project with a test that is not ok
\* is never dispatched, never successful, and has every test marked
\* 'skipped' once its turn was taken.
C8_SkippingIsTransitive ==
  /\ \A p \in Configured : (ntests[p] > 0 /\ ~NoSkipMark(p)) => p \notin successfulProjects
  /\ \A p \in Configured : \A A \in TransDeps(p) :
       NotOk(A) =>
         /\ p \notin dispatched
         /\ p \notin successfulProjects
         /\ (p \in visited => AllSkipped(p))

\* A project was skipped for a failure two dependency steps away.
C8_Witness ==
  \E p \in Configured : \E A \in TransDeps(p) \ deps[p] :
    /\ NotOk(A) /\ \A d \in deps[p] : ~NotOk(d)
    /\ p \in visited /\ ntests[p] > 0 /\ AllSkipped(p)

\* C9: with an acyclic dependency relation and no worker errors, a project
\* whose turn was taken and whose dependencies, in one step or more, have
\* only ok tests has its groups handed to a dispatcher and no test marked
\* 'skipped'.
C9_FailureAffectsOnlyDependents ==
  \A p \in visited :
    (/\ Acyclic
     /\ \A k \in Configured : ~dispatchers[k].workerErrors
     /\ \A d \in TransDeps(p) : ~NotOk(d))
    => /\ (ntests[p] > 0 => p \in dispatched)
       /\ NoSkipMark(p)

\* How many times reporter r has received the notification `what`.
Received(r, what) == Cardinality({i \in 1..Len(log[r]) : log[r][i] = what})

\* C10: once onExit has been called, every reporter has received onBegin
\* exactly once and onEnd exactly once, onBegin first.
C10_BeginAndEndExactlyOnce ==
  runner.pc = "exited" =>
    \A r \in Reporters :
      /\ Received(r, <<"onBegin">>) = 1
      /\ Received(r, <<"onEnd">>) = 1
      /\ \A i \in 1..Len(log[r]) : \A j \in 1..Len(log[r]) :
           (log[r][i] = <<"onBegin">> /\ log[r][j] = <<"onEnd">>) => i < j

\* ------------------------------------------ properties of the Multiplexer
ErrorsOf(seq) == SelectSeq(seq, LAMBDA e : e[1] = "onError")

StdIOOf(seq) == SelectSeq(seq, LAMBDA e : e[1] \in {"onStdOut", "onStdErr"})

\* C11: once onExit has been called, every reporter has received every error
\* passed to the Multiplexer exactly once and in arrival order, likewise
\* every output chunk, and all of them before its onEnd.
C11_DeferredEventsDelivered ==
  runner.pc = "exited" =>
    \A r \in Reporters :
      /\ ErrorsOf(log[r]) = ErrorsOf(sent)
      /\ StdIOOf(log[r]) = StdIOOf(sent)
      /\ \A i \in 1..Len(log[r]) : \A j \in 1..Len(log[r]) :
           (log[r][i][1] \in {"onError", "onStdOut", "onStdErr"} /\ log[r][j] = <<"onEnd">>)
             => i < j

\* ------------------------------------------------ properties of the steps
\* The position of a step in the pipeline.
IndexOf(task) == CHOOSE i \in 1..Len(Tasks) : Tasks[i] = task

\* No step after 'load tests' has been started or completed.
NothingAfterLoad ==
  /\ runner.cur = IndexOf("load tests")
  /\ phases = <<>> /\ rt.pc = "idle" /\ dispatched = {}
  /\ \A r \in Reporters : \A i \in 1..Len(log[r]) :
       log[r][i] = <<"onBegin">> => runner.pc = "exited"

\* C12: when the loaded suite has no test and neither passWithNoTests nor
\* config.shard is set, the load step fails with the 'No tests found' error
\* and no later step runs; when one of the two is set, the load step
\* completes.
C12_EmptySuiteFailsLoad ==
  options.read =>
    IF ~options.passWithNoTests /\ ~options.shard
    THEN /\ runner.status = "failed" /\ runner.pc # "tasks"
         /\ <<"onError", "load tests">> \in Range(sent)
         /\ NothingAfterLoad
    ELSE runner.cur > IndexOf("load tests")

\* An empty suite was loaded without passWithNoTests and without shard, and
\* the run has ended.
C12_Witness ==
  /\ options.read /\ ~options.passWithNoTests /\ ~options.shard
  /\ runner.pc = "exited" /\ runner.status = "failed"

\* C12 as stated: an empty suite fails the load step unless passWithNoTests
\* is set.
C12_EmptySuiteFailsUnlessPassWithNoTests ==
  (options.read /\ ~options.passWithNoTests) =>
    /\ runner.status = "failed"
    /\ NothingAfterLoad

\* -------------------------------------------- properties of the TestLoader
\* The files of the first k turns whose load failed, in order.
RECURSIVE FailedFiles(_)
FailedFiles(k) ==
  IF k = 0 THEN <<>>
  ELSE IF ld.failed[k] THEN Append(FailedFiles(k - 1), ld.testFiles[k])
  ELSE FailedFiles(k - 1)

\* C13: in the loader, a failing file never aborts the loading: after k
\* turns the root suite holds one file suite per input file, in input order,
\* loadErrors holds exactly one error per failed load, in order, and the
\* function returns only after every input file had its turn.
C13_LoadErrorsDoNotAbort ==
  /\ ld.pc # "threw"
  /\ Len(ld.suites) = ld.pos
  /\ \A i \in 1..ld.pos : ld.suites[i].file = ld.testFiles[i]
  /\ ld.loadErrors = FailedFiles(ld.pos)
  /\ (ld.pc = "returned" => ld.pos = Len(ld.testFiles))

\* A file failed to load, a later file was loaded, and the call returned.
C13_Witness ==
  /\ ld.pc = "returned"
  /\ \E i \in 1..ld.pos : \E j \in 1..ld.pos :
       i < j /\ ld.failed[i] /\ ~ld.failed[j] /\ ld.testFiles[i] # ld.testFiles[j]

\* ------------------------------------------------ properties of rollback
\* The steps up to position i that return a rollback, last registered first.
RECURSIVE RollbacksBelow(_)
RollbacksBelow(i) ==
  IF i = 0 THEN <<>>
  ELSE (IF Tasks[i] \in {"plugin setup", "global setup", "shard tests", "report begin"}
        THEN <<i>> ELSE <<>>) \o RollbacksBelow(i - 1)

\* C14: after a step threw, no further step starts; the rollbacks run so far
\* followed by those still to run are exactly the rollbacks of the steps
\* completed before the failing one, each once, last registered first, also
\* when some of them threw; at the end all of them have run.
C14_RollbacksOnceInReverseOrder ==
  runner.status = "failed" =>
    /\ runner.pc # "tasks" /\ ~runner.inTask
    /\ runner.cur <= Len(Tasks) /\ rt.pc = "idle"
    /\ (runner.cur <= IndexOf("shard tests") => phases = <<>>)
    /\ (runner.cur < IndexOf("load tests") => rootSuite = <<>>)
    /\ runner.rolled \o runner.teardowns = RollbacksBelow(runner.cur - 1)
    /\ (runner.pc = "exited" => runner.rolled = RollbacksBelow(runner.cur - 1))

\* A step threw after three steps with rollbacks, one rollback threw, and
\* the rollbacks registered before it ran all the same.
C14_Witness ==
  /\ runner.status = "failed" /\ runner.pc = "exited"
  /\ Len(runner.rolled) >= 3
  /\ runner.rolled[1] \in runner.threw

\* -------------------------------------------- properties of the Dispatcher
\* A test no worker crashed on, in a run that was not cancelled.
Undisturbed(t) == dp.crashAt[t] = 0 /\ ~dp.cancelled

\* C15: a test is attempted again after each failed or timed-out attempt
\* until it passes or retries + 1 attempts are recorded, and never after a
\* pass; so a test that fails on attempts 1..R and passes on attempt R+1
\* has exactly R+1 attempts, is reported 'flaky', and, when nothing else
\* went wrong, the final outcome is not a failure.
C15_FlakyAfterRetries ==
  /\ \A t \in DTests :
       LET rs == dp.results[t] IN
       Undisturbed(t) =>
         /\ Len(rs) <= dp.retries + 1
         /\ \A i \in 1..(Len(rs) - 1) : rs[i] \in {"failed", "timedOut"}
         /\ (dp.pc \in {"resolved", "ended"} =>
               /\ Len(rs) > 0
               /\ (rs[Len(rs)] = "passed" \/ Len(rs) = dp.retries + 1))
         /\ (Len(rs) > 1 /\ rs[Len(rs)] = "passed" => ReportedStatus(rs) = "flaky")
  /\ (/\ dp.pc = "ended" /\ ~dp.cancelled /\ ~dp.workerErrors /\ dp.fatal = 0
      /\ \A t \in DTests : ReportedStatus(dp.results[t]) \in {"passed", "flaky"})
     => dp.outcome = "ok"

\* With two retries a test failed, timed out and then passed.
C15_Witness ==
  /\ dp.pc = "ended" /\ dp.retries = 2
  /\ dp.results[1] = <<"failed", "timedOut", "passed">>
  /\ ReportedStatus(dp.results[1]) = "flaky"
  /\ dp.outcome = "ok"

\* C16: when the deadline of a test elapsed before its testEnd, that attempt
\* of the test is 'timedOut' (its reported status too, unless a retry
\* follows), and the worker that owned it is assigned no further group: it
\* is gone once its group is done.
C16_TimedOutWorkerDiscarded ==
  \A w \in Procs :
    LET wk == dp.workers[w] IN
    wk.tmo # <<>> =>
      /\ dp.results[wk.tmo[1]][wk.tmo[2]] = "timedOut"
      /\ (Len(dp.results[wk.tmo[1]]) = wk.tmo[2] =>
            ReportedStatus(dp.results[wk.tmo[1]]) = "timedOut")
      /\ wk.groups = wk.tmo[3]
      /\ wk.st \in {"busy", "stopping", "gone"}
      /\ (wk.st = "busy" => Len(wk.group) > 0)

\* A test timed out in a worker, the worker is gone, and a third worker
\* process ran a later group although no worker crashed.
C16_Witness ==
  /\ dp.pc = "ended" /\ ~dp.cancelled /\ ~dp.workerErrors
  /\ \E w \in Procs : dp.workers[w].tmo # <<>> /\ dp.workers[w].st = "gone"
  /\ dp.workers[3].groups >= 1

C19_FatalErrorsReportedAtEnd ==
  /\ [][dp'.fatal # dp.fatal => dp'.results = dp.results]_vars
  /\ [](dp.pc # "ended" => dp.reported = <<>>)
  /\ [](dp.pc = "ended" =>
          /\ dp.reported = IF dp.fatal > 0 THEN <<dp.fatal>> ELSE <<>>
          /\ (dp.fatal > 0 => dp.outcome = "failed"))

\* Two workers each threw while being shut down after their tests passed.
C19_Witness ==
  /\ dp.pc = "ended" /\ dp.fatal = 2 /\ dp.reported = <<2>>
  /\ \A t \in DTests : dp.results[t] = <<"passed">>
  /\ dp.outcome = "failed"

\* --------------------------------------- properties of test-level failures
\* C20: failed and timed-out tests do not fail the pipeline. A failed
\* pipeline never began the 'test suite' step; while the step runs and no
\* global timeout has elapsed no rollback has run; and in a run that has
\* not timed out, with an acyclic dependency relation and no worker errors,
\* every project whose dependencies, in one step or more, have only ok
\* tests gets its turn, has its groups handed to a dispatcher and is not
\* marked 'skipped', whatever failed in the other projects.
C20_TestFailureIsNotStepFailure ==
  /\ (runner.status = "failed" => rt.pc = "idle" /\ runner.cur < IndexOf("test suite"))
  /\ (runner.status = "passed" /\ rt.pc \notin {"idle", "done"} =>
        runner.pc = "tasks" /\ runner.rolled = <<>>)
  /\ (runner.status = "passed" /\ Acyclic /\ \A k \in Configured : ~dispatchers[k].workerErrors) =>
        /\ (rt.pc = "done" => Range(rootSuite) \subseteq visited)
        /\ \A p \in visited :
             (\A d \in TransDeps(p) : ~NotOk(d)) =>
               /\ (ntests[p] > 0 => p \in dispatched)
               /\ NoSkipMark(p)

\* A test of A failed; the step completed and the pipeline passed; B, which
\* depends on A, was skipped, and D, which depends on C with its passed
\* test, has run in the later phase; its test timed out.
C20_Witness ==
  /\ runner.pc = "exited" /\ runner.status = "passed" /\ rt.pc = "done"
  /\ \E A, B, C, D \in Configured :
       /\ results[A][1] = <<"failed">> /\ ntests[A] = 1
       /\ deps[B] = {A} /\ ntests[B] = 1 /\ AllSkipped(B)
       /\ deps[C] = {} /\ ntests[C] = 1 /\ results[C][1] = <<"passed">>
       /\ deps[D] = {C} /\ ntests[D] = 1 /\ results[D][1] = <<"timedOut">>

\* ------------------------------------------- properties of the phase loop
PosIn(seq, x) == CHOOSE i \in 1..Len(seq) : seq[i] = x

\* The projects of a phase entry none of whose dependencies is missing from
\* the set `successful`.
WithoutFailedDeps(ph, successful) ==
  {p \in Range(ph.projects) : deps[p] \subseteq successful}

\* q lists every test of the projects of E once and nothing else, by the
\* projects' positions in the phase entry and then by the tests' positions.
MergedInOrder(q, ph, E) ==
  /\ \A i \in 1..Len(q) : q[i][1] \in E /\ q[i][2] \in TestsOf(q[i][1])
  /\ \A p \in E : \A t \in TestsOf(p) :
       Cardinality({i \in 1..Len(q) : q[i] = <<p, t>>}) = 1
  /\ \A i, j \in 1..Len(q) :
       i < j => \/ PosIn(ph.projects, q[i][1]) < PosIn(ph.projects, q[j][1])
                \/ q[i][1] = q[j][1] /\ q[i][2] < q[j][2]

PhaseIndex(out, p) ==
  IF \E k \in 1..Len(out) : p \in Range(out[k])
  THEN CHOOSE k \in 1..Len(out) : p \in Range(out[k])
  ELSE 0

MaxOf(S) == CHOOSE m \in S : \A x \in S : x <= m

\* C22: a project suite without dependencies is in the first phase; a
\* placed project with dependencies is in the phase right after the last
\* phase of its dependencies, so it has a dependency in the phase before
\* its own; and every project whose dependencies, in one step or more, have
\* suites in the input and are free of cycles is placed.
C22_EarliestPossiblePhase ==
  bp.pc = "returned" =>
    /\ \A p \in Range(bp.in) :
         /\ (deps[p] = {} => PhaseIndex(bp.out, p) = 1)
         /\ (deps[p] # {} /\ p \in Placed =>
               PhaseIndex(bp.out, p) = 1 + MaxOf({PhaseIndex(bp.out, d) : d \in deps[p]}))
         /\ (p \notin TransDeps(p) /\ TransDeps(p) \subseteq Range(bp.in)
              /\ (\A d \in TransDeps(p) : d \notin TransDeps(d)) => p \in Placed)
    /\ \A k \in 2..Len(bp.out) : \A p \in PhaseSet(k) :
         \E d \in deps[p] : d \in PhaseSet(k - 1)

\* A project with one dependency in the first phase and one in the second
\* was placed in the third phase.
C22_Witness ==
  /\ bp.pc = "returned" /\ Len(bp.out) >= 3
  /\ \E p \in PhaseSet(3) : \E d1, d2 \in deps[p] : d1 \in PhaseSet(1) /\ d2 \in PhaseSet(2)
  /\ \E q \in PhaseSet(1) : q \in Range(bp.in) /\ deps[q] = {}

\* `out` lists, phase by phase, projects in the relative order of `in`, and
\* has no empty phase.
InInputOrder(in, out) ==
  \A k \in 1..Len(out) :
    /\ Len(out[k]) > 0
    /\ \A i, j \in 1..Len(out[k]) :
         i < j => PosIn(in, out[k][i]) < PosIn(in, out[k][j])

\* C23: in whatever order the project suites are listed, every returned
\* phase lists its projects in that order, and no returned phase is empty.
C23_PhasesKeepDiscoveryOrder ==
  /\ (bp.pc \in {"returned", "returned2"} => InInputOrder(bp.in, bp.out))
  /\ (bp.pc = "returned2" => InInputOrder(bp.in2, bp.out2))

\* Three projects listed in another order than by number came back with
\* two of them in one phase, fewer phases than passes.
C23_Witness ==
  /\ bp.pc = "returned2" /\ bp.in2 # bp.in /\ Len(bp.in2) >= 3
  /\ Len(bp.out2) >= 2 /\ Len(bp.out2) < Len(bp.in2)
  /\ \E k \in 1..Len(bp.out2) :
       Len(bp.out2[k]) >= 2 /\ bp.out2[k][1] > bp.out2[k][2]

\* C24: two calls on the same configuration return the same phases when
\* the suites are listed in the same order, and put every project in the
\* same phase (or both in none) when they are listed in another order.
C24_PhaseMembershipIsDeterministic ==
  bp.pc = "returned2" =>
    /\ (bp.in2 = bp.in => bp.out2 = bp.out)
    /\ Len(bp.out2) = Len(bp.out)
    /\ \A p \in Configured : PhaseIndex(bp.out2, p) = PhaseIndex(bp.out, p)

\* The same suites in another order gave other lists, with each project in
\* the phase it had before, over at least two phases.
C24_Witness ==
  /\ bp.pc = "returned2" /\ bp.in2 # bp.in /\ bp.out2 # bp.out
  /\ Len(bp.out) >= 2 /\ Len(bp.out[1]) >= 2
  /\ \A p \in Configured : PhaseIndex(bp.out2, p) = PhaseIndex(bp.out, p)

\* --------------------------------------------- properties of skipped tests
\* C25: a test that the phase loop has marked 'skipped' has that one result
\* record and no other: no second skip mark and no attempt from a
\* dispatcher.
C25_SkippedTestHasOneRecord ==
  \A p \in Configured : \A t \in TestsOf(p) :
    "skipped" \in Range(results[p][t]) => results[p][t] = <<"skipped">>

\* ------------------------------------------- properties of the dispatchers
\* A dispatcher is active from the start of its run() to the end of its stop().
Active(k) == dispatchers[k].runCalls > 0 /\ ~dispatchers[k].stopped

\* C26: at any moment at most one phase's dispatcher is active (between the
\* start of its run() and the completion of its stop()), and only the
\* dispatcher the loop is waiting for has tests scheduled.
C26_OneActiveDispatcher ==
  /\ Cardinality({k \in Configured : Active(k)}) <= 1
  /\ \A k \in Configured :
       Len(dispatchers[k].queue) > 0 => Active(k) /\ rt.pc = "run" /\ rt.cur = k

\* Phase 1 has run and its dispatcher is stopped; phase 2's dispatcher is
\* running its tests.
C26_Witness ==
  /\ Len(phases) >= 2 /\ phases[1].id = 1
  /\ dispatchers[1].runCalls = 1 /\ dispatchers[1].stopped
  /\ Active(2) /\ Len(dispatchers[2].queue) > 0
  /\ \E p \in Range(phases[1].projects) : \E t \in TestsOf(p) : results[p][t] = <<"passed">>

\* --------------------------------- properties of the Multiplexer's buffering
IsEvent(e) == e[1] \in {"onError", "onStdOut", "onStdErr"}

\* C27: no reporter has received an onError, onStdOut or onStdErr notification
\* unless every reporter has been given onBegin; each reporter's own onBegin
\* comes before its first such notification.
C27_NoEventBeforeEveryBegin ==
  \A r \in Reporters : \A i \in 1..Len(log[r]) :
    IsEvent(log[r][i]) =>
      /\ \A q \in Reporters : Received(q, <<"onBegin">>) > 0
      /\ \E j \in 1..(i - 1) : log[r][j] = <<"onBegin">>

\* An error and a chunk arrived, one reporter's onBegin threw in 'report begin'
\* so that nothing was flushed, and onExit's onBegin then delivered them.
C27_Witness ==
  /\ runner.pc = "exited"
  /\ Len(ErrorsOf(sent)) = 1 /\ Len(StdIOOf(sent)) = 1
  /\ Received(1, <<"onBegin">>) = 2
  /\ \A r \in Reporters : ErrorsOf(log[r]) = ErrorsOf(sent) /\ StdIOOf(log[r]) = StdIOOf(sent)

\* ------------------------------------------- properties of the plugin hooks
\* The plugins whose hook `kind` has been called, in call order.
HooksOf(kind) ==
  LET h == SelectSeq(runner.hooks, LAMBDA x : x[1] = kind)
  IN [i \in 1..Len(h) |-> h[i][2]]

\* The call <<kind, plugin>> at position i of the hook log comes after the
\* completion of the plugin's setup.
AfterSetupDone(i) ==
  \E j \in 1..(i - 1) : runner.hooks[j] = <<"setup done", runner.hooks[i][2]>>

\* C28: plugin setup is invoked in registration order; begin is invoked only
\* for plugins whose setup completed; teardown is invoked in reverse
\* registration order, at most once, only for plugins whose setup completed,
\* and only when every dispatcher has been stopped.
C28_PluginHooksInOrder ==
  /\ \A i \in 1..Len(HooksOf("setup")) : HooksOf("setup")[i] = i
  /\ \A i \in 1..Len(runner.hooks) :
       runner.hooks[i][1] \in {"begin", "teardown"} => AfterSetupDone(i)
  /\ \A i \in 1..(Len(HooksOf("teardown")) - 1) :
       HooksOf("teardown")[i] > HooksOf("teardown")[i + 1]
  /\ (Len(HooksOf("teardown")) > 0 =>
        \A i \in 1..Len(phases) : dispatchers[phases[i].id].stopped)

\* Two plugins were set up and begun, the global timeout elapsed while the
\* first of two phases was running, and both plugins were torn down, the
\* second first.
C28_Witness ==
  /\ runner.pc = "exited" /\ runner.status = "timedout"
  /\ Len(phases) = 2 /\ dispatchers[1].runCalls > 0
  /\ HooksOf("setup") = <<1, 2>> /\ HooksOf("begin") = <<1, 2>>
  /\ HooksOf("teardown") = <<2, 1>>

\* ------------------------------------- properties of the output directories
\* C29: the output directory of every project of which a test has been run
\* has been removed before, also for a project that runs only because a
\* project named by the project filter depends on it.
C29_OutputDirRemovedBeforeRun ==
  \A p \in Configured :
    (p \in dispatched \/ HasRun(p)) => outputDirs.dirOf[p] \in outputDirs.removed

\* ---------------------------------------------------- properties of js2ts
JsExtensions == {DotJs, DotJsx, DotMjs}

HasJsExtension(path) == \E e \in JsExtensions : EndsWith(path, e)

\* The path without its .js/.jsx/.mjs extension, and that extension.
ExtensionOf(path) == CHOOSE e \in JsExtensions : EndsWith(path, e)

Stem(path) == SubSeq(path, 1, Len(path) - Len(ExtensionOf(path)))

\* The first of the two candidates that exists, if any.
FirstExisting(first, second, fs) ==
  IF first \in fs THEN Returned(first)
  ELSE IF second \in fs THEN Returned(second)
  ELSE Undefined

\* The two paths js2ts looks for, per extension of the resolved path.
CandidatesOf(path) ==
  LET e == ExtensionOf(path)
  IN IF e = DotJs THEN <<Stem(path) \o DotTs, Stem(path) \o DotTsx>>
     ELSE IF e = DotJsx
     THEN <<Stem(path) \o DotTsx, Stem(path) \o <<".", "t", "s", "x", "x">> >>
     ELSE <<Stem(path) \o <<".", "m", "t", "s">>, Stem(path) \o <<".", "m", "t", "s", "x">> >>

\* C30 (as stated): for a path ending in .js, .jsx or .mjs that does not
\* exist, js2ts returns the path with the extension .ts if that exists,
\* otherwise the path with the extension .tsx if that exists, otherwise
\* undefined; for an existing path or another extension, undefined.
C30_Js2tsMapsToTsThenTsx ==
  js.pc = "returned" =>
    js.out = IF HasJsExtension(js.resolved) /\ js.resolved \notin js.fs
             THEN FirstExisting(Stem(js.resolved) \o DotTs, Stem(js.resolved) \o DotTsx, js.fs)
             ELSE Undefined

\* C30 (amended): for a path ending in .js, .jsx or .mjs that does not exist,
\* js2ts returns the path with 'js' in the extension replaced by 'ts' (.ts,
\* .tsx, .mts) if that exists, otherwise the one with 'js' replaced by 'tsx'
\* (.tsx, .tsxx, .mtsx) if that exists, otherwise undefined; for an
\* existing path or another extension, undefined.
C30_Js2tsReplacesJsInExtension ==
  js.pc = "returned" =>
    js.out = IF HasJsExtension(js.resolved) /\ js.resolved \notin js.fs
             THEN FirstExisting(CandidatesOf(js.resolved)[1], CandidatesOf(js.resolved)[2], js.fs)
             ELSE Undefined

\* 'a.jsx' does not exist, 'a.ts' and 'a.tsx' do: js2ts returned 'a.tsx'.
C30_Witness ==
  /\ js.pc = "returned"
  /\ EndsWith(js.resolved, DotJsx) /\ js.resolved \notin js.fs
  /\ Stem(js.resolved) \o DotTs \in js.fs
  /\ js.out = Returned(Stem(js.resolved) \o DotTsx)

\* ------------------------------------ properties of the loop under a timeout
\* C31: run() is invoked at most once on each phase's dispatcher, and the
\* phases whose dispatcher is run are taken in increasing phase order, in
\* every interleaving of the loop with the rollbacks.
C31_RunOncePerPhaseInOrder ==
  [][/\ \A k \in Configured : dispatchers'[k].runCalls <= 1
     /\ \A k \in Configured :
          dispatchers'[k].runCalls > dispatchers[k].runCalls =>
            \A j \in Configured : j > k => dispatchers[j].runCalls = 0]_vars

\* ------------------------------------------- properties of worker errors
\* The projects of the phase with dispatcher k, and of the phases after it.
ProjectsOfPhase(k) == UNION {Range(x.projects) : x \in {y \in Range(phases) : y.id = k}}

ProjectsAfterPhase(k) == UNION {Range(x.projects) : x \in {y \in Range(phases) : y.id > k}}

\* C32: when the dispatcher of phase k has reported worker errors and the
\* loop has ended, no project of phase k is in successfulProjects, the turn
\* of every project of a later phase has been taken, and each test of such a
\* project has exactly one result, 'skipped'.
C32_WorkerErrorsSkipLaterPhases ==
  \A k \in Configured :
    (rt.pc = "done" /\ dispatchers[k].workerErrors) =>
      /\ ProjectsOfPhase(k) \cap successfulProjects = {}
      /\ \A p \in ProjectsAfterPhase(k) :
           /\ p \in visited
           /\ \A t \in TestsOf(p) : results[p][t] = <<"skipped">>

\* ----------------------------------------- properties of successfulProjects
\* The phase of project p has finished without worker errors: its turn was
\* taken and its dispatcher has nothing scheduled and reported no worker error.
PhaseFinishedClean(p) ==
  /\ p \in visited
  /\ \A x \in Range(phases) :
       p \in Range(x.projects) =>
         /\ Len(dispatchers[x.id].queue) = 0
         /\ ~dispatchers[x.id].workerErrors

SuccessfulIsSound ==
  \A p \in successfulProjects :
    /\ deps[p] \subseteq successfulProjects
    /\ PhaseFinishedClean(p)
    /\ ~HasNotOkTest(p, results)

\* C33: successfulProjects only grows, every dependency of a member is a
\* member, and a member's phase has finished with no worker errors and with
\* every test of the member ok.
C33_SuccessfulOnlyGrowsAndIsClosed ==
  [][successfulProjects \subseteq successfulProjects' /\ SuccessfulIsSound']_vars

\* A project and its dependency are both successful after their tests
\* passed, while a project of the dependency's phase failed.
C33_Witness ==
  \E p \in successfulProjects : \E d \in deps[p] : \E q \in Configured :
    /\ d \in successfulProjects
    /\ \E t \in TestsOf(p) : results[p][t] = <<"passed">>
    /\ \E t \in TestsOf(d) : results[d][t] = <<"passed">>
    /\ q \notin successfulProjects /\ HasNotOkTest(q, results)

\* -------------------------------- properties of the Multiplexer's hooks
\* C34: for every notification hook, an exception thrown by a reporter does
\* not propagate to the caller, and every reporter receives the notification
\* that one reporter threw from.
C34_ReporterExceptionsAreContained ==
  hk.pc = "returned" =>
    /\ ~hk.propagated
    /\ (hk.received \cap hk.throwers # {} => hk.received = Reporters)

\* ------------------------------------------ properties of the global hooks
\* How many times the hook <<kind, plugin>> has been called.
HookCalls(kind, plugin) ==
  Cardinality({i \in 1..Len(runner.hooks) : runner.hooks[i] = <<kind, plugin>>})

\* C35: when the 'global setup' step completed, the globalTeardown hook has
\* been invoked exactly once by the time its rollback has run, also when the
\* function returned by globalSetup threw; it is never invoked twice.
C35_GlobalTeardownExactlyOnce ==
  /\ HookCalls("globalTeardown", 0) <= 1
  /\ \A i \in Range(runner.rolled) :
       Tasks[i] = "global setup" => HookCalls("globalTeardown", 0) = 1

\* ------------------------------------------- properties of the vite plugin
\* The rollback of the vite plugin's 'plugin setup' step threw.
ViteTeardownThrew ==
  \E i \in runner.threw : Tasks[i] = "plugin setup" /\ PluginAt(i) = 1

\* C36: the vite plugin's teardown completes without error whenever the
\* rollback invokes it, also when the pipeline was aborted after 'plugin
\* setup' and before 'plugin begin' started the preview server.
C36_ViteTeardownNeverThrows ==
  runner.vite => ~ViteTeardownThrew

\* --------------------------------------- properties of the file-suite cache
\* Call i required the file and requireOrImport returned.
LoadedOk(i) == ld.calls[i].required /\ ld.calls[i].ok

\* The first call after call i that is for the same file, 0 if there is none.
NextCallOf(i) ==
  LET later == {j \in (i + 1)..Len(ld.calls) : ld.calls[j].file = ld.calls[i].file}
  IN IF later = {} THEN 0 ELSE CHOOSE j \in later : \A k \in later : j <= k

\* C37: after any sequence of loadTestFile calls in a process, a file is in
\* cachedFileSuites if and only if some load of it completed without error;
\* a cached file is never required again and every later load returns the
\* identical Suite; a file whose load failed is required again by the next
\* call for it.
C37_CacheHoldsExactlyLoadedFiles ==
  LET n == Len(ld.calls)
  IN /\ \A f \in Files :
          (\E s \in ld.cache : s.file = f) <=>
            (\E i \in 1..n : ld.calls[i].file = f /\ LoadedOk(i))
     /\ \A s \in ld.cache : \A t \in ld.cache : s.file = t.file => s = t
     /\ \A i \in 1..n : \A j \in 1..n :
          (i < j /\ ld.calls[i].file = ld.calls[j].file /\ LoadedOk(i)) =>
            /\ ~ld.calls[j].required
            /\ ~ld.calls[j].threw
            /\ ld.calls[j].suite = ld.calls[i].suite
     /\ \A i \in 1..n :
          (ld.calls[i].required /\ ~ld.calls[i].ok /\ NextCallOf(i) # 0) =>
            ld.calls[NextCallOf(i)].required

\* A file's load failed in a worker, the next call required it again and
\* succeeded in the loader, and two later calls, one of them in a worker
\* whose require would throw, got the cached suite.
C37_Witness ==
  /\ Len(ld.calls) = 4
  /\ \A i \in 1..4 : ld.calls[i].file = 1
  /\ ld.calls[1].required /\ ld.calls[1].threw
  /\ LoadedOk(2)
  /\ ~ld.calls[3].required /\ ~ld.calls[4].required
  /\ ld.calls[4].suite = ld.calls[2].suite
  /\ ld.loadErrors = <<>>

\* ------------------------------------------ properties of requireOrImport
\* The closures a call of Module._resolveFilename goes through, from the
\* installed one down to the function installed before the first call.
RECURSIVE ResolveChain(_, _)
ResolveChain(f, n) ==
  IF f = 0 \/ n = 0 THEN {} ELSE {f} \cup ResolveChain(rq.original[f], n - 1)

\* The calls whose resolveHook or transformHook still applies: closures on
\* the chain that are not reverted, and pirates hooks not removed.
ActiveTransforms ==
  {c \in ResolveChain(rq.resolveFilename, NumCalls) : rq.pc[c] = "awaiting"} \cup rq.hooks

\* C38: once every requireOrImport call has returned or thrown,
\* Module._resolveFilename is the function installed before the first call
\* and no transform hook is active, for sequential calls and for every
\* interleaving of overlapping calls.
C38_ResolveFilenameRestored ==
  (\A c \in Calls : rq.pc[c] # "awaiting") =>
    /\ rq.resolveFilename = 0
    /\ ActiveTransforms = {}
====
